---- MODULE Spec2Model ----
(***************************************************************************)
(* Model of the serisei formatter: the import grouping engine, the         *)
(* declaration block formatter with its method-signature sub-formatter,    *)
(* the configuration loader and the file driver.                           *)
(*                                                                         *)
(* A JavaScript string is a sequence of one-character strings, so that     *)
(* every scan, regular expression and substring of the source is computed  *)
(* character by character.  Indices passed to At, Sub, IndexOf are the     *)
(* 0-based indices of the source.                                          *)
(***************************************************************************)
EXTENDS Integers, Sequences, FiniteSets, TLC

\* ---------------------------------------------------------------------------
\* Characters
\* ---------------------------------------------------------------------------
Lower == {"a", "b", "c", "d", "e", "f", "g", "h", "i", "j", "k", "l", "m",
          "n", "o", "p", "q", "r", "s", "t", "u", "v", "w", "x", "y", "z"}

Upper == {"A", "B", "C", "D", "E", "F", "G", "H", "I", "J", "K", "L", "M",
          "N", "O", "P", "Q", "R", "S", "T", "U", "V", "W", "X", "Y", "Z"}

Digits == {"0", "1", "2", "3", "4", "5", "6", "7", "8", "9"}

\* \w of a JavaScript regular expression
WordChars == Lower \cup Upper \cup Digits \cup {"_"}

\* [\w$]
KeyChars == WordChars \cup {"$"}

\* \s of a JavaScript regular expression (the characters the inputs use)
IsWS(c) == c \in {" ", "\t", "\n"}

\* The printable ASCII characters 0x20 .. 0x5F in code-unit order
AsciiLow ==
    <<" ", "!", "\"", "#", "$", "%", "&", "'", "(", ")", "*", "+", ",", "-", ".", "/",
      "0", "1", "2", "3", "4", "5", "6", "7", "8", "9", ":", ";", "<", "=", ">", "?",
      "@", "A", "B", "C", "D", "E", "F", "G", "H", "I", "J", "K", "L", "M", "N", "O",
      "P", "Q", "R", "S", "T", "U", "V", "W", "X", "Y", "Z", "[", "\\", "]", "^", "_">>

\* The printable ASCII characters 0x61 .. 0x7E in code-unit order
AsciiHigh ==
    <<"a", "b", "c", "d", "e", "f", "g", "h", "i", "j", "k", "l", "m", "n", "o",
      "p", "q", "r", "s", "t", "u", "v", "w", "x", "y", "z", "{", "|", "}", "~">>

\* UTF-16 code unit of a character
CodeUnit(c) ==
    IF c = "\t" THEN 9
    ELSE IF c = "\n" THEN 10
    ELSE IF \E i \in 1..Len(AsciiLow) : AsciiLow[i] = c
         THEN 31 + (CHOOSE i \in 1..Len(AsciiLow) : AsciiLow[i] = c)
         ELSE 96 + (CHOOSE i \in 1..Len(AsciiHigh) : AsciiHigh[i] = c)

\* ---------------------------------------------------------------------------
\* String primitives (String.prototype.*)
\* ---------------------------------------------------------------------------
MinOf(S) == CHOOSE x \in S : \A y \in S : x <= y

MaxOf(S) == CHOOSE x \in S : \A y \in S : x >= y

Max2(a, b) == IF a >= b THEN a ELSE b

Min2(a, b) == IF a <= b THEN a ELSE b

\* s[i], "" when out of range
At(s, i) == IF i >= 0 /\ i < Len(s) THEN s[i + 1] ELSE ""

\* s.substring(a, b): both ends are clamped to 0..Len(s) and swapped when a > b
Sub(s, a, b) == SubSeq(s, Max2(0, Min2(a, b)) + 1, Min2(Len(s), Max2(a, b)))

\* s.substring(a)
SubFrom(s, a) == SubSeq(s, Max2(0, a) + 1, Len(s))

\* s.trim()
Trim(s) ==
    LET Between(idx) == IF idx = {} THEN <<>> ELSE SubSeq(s, MinOf(idx), MaxOf(idx))
    IN  Between({i \in 1..Len(s) : ~IsWS(s[i])})

\* s.match(/^\s*/)[0]
LeadingWS(s) ==
    LET Before(idx) == IF idx = {} THEN s ELSE SubSeq(s, 1, MinOf(idx) - 1)
    IN  Before({i \in 1..Len(s) : ~IsWS(s[i])})

\* s.indexOf(p, from)
IndexOfFrom(s, p, from) ==
    LET First(hits) == IF hits = {} THEN -1 ELSE MinOf(hits)
    IN  First({i \in Max2(0, from)..(Len(s) - Len(p)) : SubSeq(s, i + 1, i + Len(p)) = p})

\* s.indexOf(p)
IndexOf(s, p) == IndexOfFrom(s, p, 0)

\* s.lastIndexOf(p)
LastIndexOf(s, p) ==
    LET Last(hits) == IF hits = {} THEN -1 ELSE MaxOf(hits)
    IN  Last({i \in 0..(Len(s) - Len(p)) : SubSeq(s, i + 1, i + Len(p)) = p})

\* s.includes(p)
Includes(s, p) == IndexOf(s, p) # -1

\* s.startsWith(p)
StartsWith(s, p) == Len(p) <= Len(s) /\ SubSeq(s, 1, Len(p)) = p

\* s.endsWith(p)
EndsWith(s, p) == Len(p) <= Len(s) /\ SubSeq(s, Len(s) - Len(p) + 1, Len(s)) = p

\* s.padEnd(n, fill)
PadEnd(s, n, fill) ==
    IF n <= Len(s) \/ Len(fill) = 0 THEN s
    ELSE s \o [i \in 1..(n - Len(s)) |-> fill[((i - 1) % Len(fill)) + 1]]

\* " ".repeat(n)
Repeat(c, n) == [i \in 1..n |-> c]

\* (s.match(/c/g) || []).length
CountChar(s, c) == Cardinality({i \in 1..Len(s) : s[i] = c})

\* index of the first character at or after i that is not white space
SkipWS(s, i) ==
    LET First(idx) == IF idx = {} THEN Max2(i, Len(s)) ELSE MinOf(idx)
    IN  First({j \in i..(Len(s) - 1) : ~IsWS(At(s, j))})

\* index just after the longest run of characters of cs that starts at i
RunEnd(s, i, cs) ==
    LET First(idx) == IF idx = {} THEN Max2(i, Len(s)) ELSE MinOf(idx)
    IN  First({j \in i..(Len(s) - 1) : At(s, j) \notin cs})

\* lines.map(f) flattened: concatenation of a sequence of sequences
RECURSIVE Flatten(_)
Flatten(ss) == IF ss = <<>> THEN <<>> ELSE Head(ss) \o Flatten(Tail(ss))

\* arr.slice(1, -1)
SliceInner(arr) == SubSeq(arr, 2, Len(arr) - 1)

KeepFinalSemi(s) == s

\* s.replace(/;$/, "")
StripFinalSemi(s) == IF EndsWith(s, <<";">>) THEN SubSeq(s, 1, Len(s) - 1) ELSE s

\* ---------------------------------------------------------------------------
\* Configuration defaults
\* ---------------------------------------------------------------------------
DefaultIndentSize == 4

getIndentString(config) ==
    IF config.INDENT_TYPE = "tabs" THEN <<"\t">> ELSE Repeat(" ", config.INDENT_SIZE)

\* s.split(/[seps]/): the segments between the separator characters
RECURSIVE SplitOn(_, _, _, _)
SplitOn(s, seps, i, cur) ==
    IF i >= Len(s) THEN <<cur>>
    ELSE IF At(s, i) \in seps THEN <<cur>> \o SplitOn(s, seps, i + 1, <<>>)
    ELSE SplitOn(s, seps, i + 1, Append(cur, At(s, i)))

\* arr.filter(p => p.trim())
FilterNonBlank(arr) == SelectSeq(arr, LAMBDA p : Trim(p) # <<>>)

\* index just after /[\w$]+(?:<[^>]+>)?/ (or /\w+(?:<[^>]+>)?/) matched at i; -1 when
\* no word character is there.  A generic suffix is taken when "<" is followed by at
\* least one character other than ">" and then ">".
KeyEnd(s, i, cs) ==
    LET Generic(w, g) == IF At(s, w) = "<" /\ g >= w + 2 THEN g + 1 ELSE w
        Word(w) == IF w = i THEN -1 ELSE Generic(w, IndexOfFrom(s, <<">">>, w + 1))
    IN  Word(RunEnd(s, i, cs))

\* ---------------------------------------------------------------------------
\* Method signature formatter (lib/method-formatter.js)
\* ---------------------------------------------------------------------------
OpenBrackets == {"(", "{", "<"}

CloseBrackets == {")", "}", ">"}

\* the string-literal state after reading character i (At gives "" before the string)
InStringAfter(s, i, inString, stringChar) ==
    IF At(s, i) \in {"\"", "'"} /\ At(s, i - 1) # "\\"
    THEN IF ~inString THEN TRUE ELSE IF At(s, i) = stringChar THEN FALSE ELSE inString
    ELSE inString

StringCharAfter(s, i, inString, stringChar) ==
    IF At(s, i) \in {"\"", "'"} /\ At(s, i - 1) # "\\" /\ ~inString THEN At(s, i) ELSE stringChar

\* the scan of parseParameter: index of the first ":" outside strings at depth 0
RECURSIVE FindParamColon(_, _, _, _, _)
FindParamColon(param, i, depth, inString, stringChar) ==
    LET char == At(param, i)
        Read(inS, sCh) ==
            IF i >= Len(param) THEN -1
            ELSE IF inS THEN FindParamColon(param, i + 1, depth, inS, sCh)
            ELSE IF char \in OpenBrackets THEN FindParamColon(param, i + 1, depth + 1, inS, sCh)
            ELSE IF char \in CloseBrackets THEN FindParamColon(param, i + 1, depth - 1, inS, sCh)
            ELSE IF char = ":" /\ depth = 0 THEN i
            ELSE FindParamColon(param, i + 1, depth, inS, sCh)
    IN  Read(InStringAfter(param, i, inString, stringChar),
             StringCharAfter(param, i, inString, stringChar))

parseParameter(param) ==
    LET Parsed(colonIndex, namePart, typePart) ==
            IF colonIndex = -1
            THEN [name |-> param, optional |-> FALSE, type |-> <<>>]
            ELSE [name     |-> IF EndsWith(namePart, <<"?">>)
                               THEN Trim(SubSeq(namePart, 1, Len(namePart) - 1)) ELSE namePart,
                  optional |-> EndsWith(namePart, <<"?">>),
                  type     |-> typePart]
        Split(colonIndex) ==
            Parsed(colonIndex, Trim(Sub(param, 0, colonIndex)), Trim(SubFrom(param, colonIndex + 1)))
    IN  Split(FindParamColon(param, 0, 0, FALSE, ""))

\* what is pushed when a parameter ends: nothing for a blank segment
PushParameter(parameters, currentParam) ==
    IF Trim(currentParam) # <<>>
    THEN Append(parameters, parseParameter(Trim(currentParam)))
    ELSE parameters

\* depth after reading character i outside a string
DepthAfter(char, depth) ==
    IF char \in OpenBrackets THEN depth + 1
    ELSE IF char \in CloseBrackets THEN depth - 1
    ELSE depth

\* pushed is the parameter list after the current parameter has ended
RECURSIVE ScanParameters(_, _, _, _, _, _, _)
ScanParameters(s, i, currentParam, depth, inString, stringChar, parameters) ==
    LET char == At(s, i)
        Read(pushed, inS, sCh, d) ==
            IF i >= Len(s) THEN pushed
            ELSE IF ~inS /\ char = "," /\ d = 0
            THEN ScanParameters(s, i + 1, <<>>, d, inS, sCh, pushed)
            ELSE ScanParameters(s, i + 1, Append(currentParam, char), d, inS, sCh, parameters)
    IN  Read(PushParameter(parameters, currentParam),
             InStringAfter(s, i, inString, stringChar),
             StringCharAfter(s, i, inString, stringChar),
             IF InStringAfter(s, i, inString, stringChar) THEN depth ELSE DepthAfter(char, depth))

parseParameters(parametersStr) == ScanParameters(parametersStr, 0, <<>>, 0, FALSE, "", <<>>)

\* alignedFirstLine.match(/^(\s*\w+(?:<[^>]+>)?)\s*\(/): the end of group 1, -1 for no match
MethodNameMatch(alignedFirstLine) ==
    LET Paren(e) == IF e # -1 /\ At(alignedFirstLine, SkipWS(alignedFirstLine, e)) = "(" THEN e ELSE -1
    IN  Paren(KeyEnd(alignedFirstLine, SkipWS(alignedFirstLine, 0), WordChars))

\* fullSignature.match(/\(([^)]*)\)\s*:\s*(.+)$/) tried at the "(" at index p:
\* c is the index of ")", k of ":" and r of the first character of group 2
SignatureMatchAt(s, p) ==
    LET Groups(c, k, r) ==
            IF At(s, p) # "(" \/ c = -1 \/ At(s, k) # ":" \/ k + 1 >= Len(s)
            THEN [ok |-> FALSE]
            ELSE [ok |-> TRUE,
                  paramsContent      |-> Sub(s, p + 1, c),
                  returnTypeWithSemi |-> IF r < Len(s) THEN SubFrom(s, r) ELSE SubFrom(s, Len(s) - 1)]
        Colon(c, k) == Groups(c, k, SkipWS(s, k + 1))
    IN  Colon(IndexOfFrom(s, <<")">>, p + 1), SkipWS(s, IndexOfFrom(s, <<")">>, p + 1) + 1))

\* the leftmost match of the signature pattern
SignatureMatch(s) ==
    LET Leftmost(matches) ==
            IF \A p \in DOMAIN matches : ~matches[p].ok THEN [ok |-> FALSE]
            ELSE matches[MinOf({p \in DOMAIN matches : matches[p].ok})]
    IN  Leftmost([p \in 0..(Len(s) - 1) |-> SignatureMatchAt(s, p)])

\* the lines of one parameter whose type holds an inline object
InlineObjectParamLines(line, param, isLastParam, paramIndent, config) ==
    LET comma == IF isLastParam THEN <<>> ELSE <<",">>
        Content(braceIndex, afterBraceIndex) == Trim(Sub(param.type, braceIndex + 1, afterBraceIndex))
        Props(withColon) ==
            [i \in 1..Len(withColon) |->
                [name |-> Trim(Sub(withColon[i], 0, IndexOf(withColon[i], <<":">>))),
                 type |-> Trim(SubFrom(withColon[i], IndexOf(withColon[i], <<":">>) + 1))]]
        Object(braceIndex, afterBraceIndex, objectContent, parsedProps) ==
            IF objectContent # <<>>
            THEN <<line \o <<" ", ":", " ">> \o (IF Trim(Sub(param.type, 0, braceIndex)) # <<>>
                                     THEN Trim(Sub(param.type, 0, braceIndex)) \o <<" ", "{">> ELSE <<"{">>)>>
                 \o [i \in 1..Len(parsedProps) |->
                        paramIndent \o getIndentString(config)
                        \o PadEnd(parsedProps[i].name,
                                  MaxOf({0} \cup {Len(parsedProps[j].name) : j \in 1..Len(parsedProps)}), <<" ">>)
                        \o <<" ", ":", " ">> \o parsedProps[i].type
                        \o (IF i = Len(parsedProps) THEN <<>> ELSE <<";">>)]
                 \o <<paramIndent \o <<"}">> \o Trim(SubFrom(param.type, afterBraceIndex + 1)) \o comma>>
            ELSE <<line \o comma>>
    IN  Object(IndexOf(param.type, <<"{">>), LastIndexOf(param.type, <<"}">>),
               Content(IndexOf(param.type, <<"{">>), LastIndexOf(param.type, <<"}">>)),
               Props(SelectSeq(FilterNonBlank(SplitOn(Content(IndexOf(param.type, <<"{">>),
                                                              LastIndexOf(param.type, <<"}">>)),
                                                      {";", ","}, 0, <<>>)),
                               LAMBDA prop : IndexOf(prop, <<":">>) > 0)))

UnalignedParameterLines(parameters, propertyIndent, config) ==
    [i \in 1..Len(parameters) |->
        propertyIndent \o getIndentString(config) \o parameters[i].name
        \o (IF parameters[i].optional THEN <<"?">> ELSE <<>>) \o <<":", " ">> \o parameters[i].type
        \o (IF i = Len(parameters) THEN <<>> ELSE <<",">>)]

\* the lines of all parameters of one signature
ParameterLines(parameters, propertyIndent, config) ==
    LET paramIndent    == propertyIndent \o getIndentString(config)
        maxParamLength == MaxOf({0} \cup {Len(parameters[i].name) : i \in 1..Len(parameters)})
        hasOptional    == \E i \in 1..Len(parameters) : parameters[i].optional
        Line(param) ==
            paramIndent \o PadEnd(param.name, maxParamLength, <<" ">>)
            \o (IF hasOptional THEN <<" ">> \o (IF param.optional THEN <<"?">> ELSE <<" ">>) ELSE <<>>)
    IN  Flatten([i \in 1..Len(parameters) |->
            IF Includes(parameters[i].type, <<"{">>) /\ Includes(parameters[i].type, <<"}">>)
            THEN InlineObjectParamLines(Line(parameters[i]), parameters[i], i = Len(parameters),
                                        paramIndent, config)
            ELSE <<Line(parameters[i]) \o <<" ", ":", " ">> \o parameters[i].type
                   \o (IF i = Len(parameters) THEN <<>> ELSE <<",">>)>>])

formatMethodSignature(methodLines, propertyIndent, alignedFirstLine, config) ==
    LET shouldExpand == config.EXPAND_METHODS # FALSE
        FirstLine(nameEnd) == propertyIndent \o Trim(Sub(alignedFirstLine, 0, nameEnd)) \o <<" ", "(">>
        Closing(sig) == propertyIndent \o <<")", ":", " ">> \o StripFinalSemi(sig.returnTypeWithSemi) \o <<";">>
        Signature(nameEnd, sig, parameters) ==
            IF nameEnd = -1 \/ ~sig.ok THEN <<alignedFirstLine>>
            ELSE IF Trim(sig.paramsContent) = <<>> THEN <<FirstLine(nameEnd), Closing(sig)>>
            ELSE IF (Len(parameters) > 0 /\ shouldExpand) \/ Len(methodLines) > 1
            THEN <<FirstLine(nameEnd)>> \o ParameterLines(parameters, propertyIndent, config)
                 \o <<Closing(sig)>>
            ELSE <<alignedFirstLine>>
        Matched(nameEnd, sig) == Signature(nameEnd, sig, parseParameters(sig.paramsContent))
    IN  IF IndexOf(alignedFirstLine, <<":">>) = -1
        THEN <<alignedFirstLine>>
             \o [i \in 1..(Len(methodLines) - 1) |->
                    propertyIndent \o getIndentString(config) \o Trim(methodLines[i + 1])]
        ELSE Matched(MethodNameMatch(alignedFirstLine), SignatureMatch(Trim(methodLines[1])))

\* ---------------------------------------------------------------------------
\* Block content formatter (lib/interface-formatter.js)
\* ---------------------------------------------------------------------------
IsCommentStart(t) == StartsWith(t, <<"/", "/">>) \/ StartsWith(t, <<"/", "*">>)

\* the second scan of the line expansion: the parts cut after each ";" at brace depth 0
RECURSIVE SplitParts(_, _, _, _, _)
SplitParts(trimmedLine, j, currentPart, braceDepth, parts) ==
    IF j >= Len(trimmedLine)
    THEN IF Trim(currentPart) # <<>> THEN Append(parts, currentPart) ELSE parts
    ELSE LET char == At(trimmedLine, j)
             part == Append(currentPart, char)
         IN  IF char = "{" THEN SplitParts(trimmedLine, j + 1, part, braceDepth + 1, parts)
             ELSE IF char = "}" THEN SplitParts(trimmedLine, j + 1, part, braceDepth - 1, parts)
             ELSE IF char = ";" /\ braceDepth = 0
             THEN SplitParts(trimmedLine, j + 1, <<>>, braceDepth, Append(parts, part))
             ELSE SplitParts(trimmedLine, j + 1, part, braceDepth, parts)

\* the first scan of the line expansion: is there a ";" outside braces
ShouldSplit(trimmedLine) ==
    \E j \in 0..(Len(trimmedLine) - 1) :
        /\ At(trimmedLine, j) = ";"
        /\ CountChar(Sub(trimmedLine, 0, j), "{") = CountChar(Sub(trimmedLine, 0, j), "}")

\* the lines one source line expands to; kept are the non-blank parts of the line
ExpandLine(line) ==
    LET Expanded(trimmedLine, kept) ==
            IF trimmedLine = <<>> THEN <<line>>
            ELSE IF Includes(trimmedLine, <<";">>) /\ ~IsCommentStart(trimmedLine) /\ ShouldSplit(trimmedLine)
            THEN [i \in 1..Len(kept) |-> LeadingWS(line) \o Trim(kept[i])]
            ELSE <<line>>
    IN  Expanded(Trim(line),
                 SelectSeq(SplitParts(Trim(line), 0, <<>>, 0, <<>>), LAMBDA p : Trim(p) # <<>>))

ExpandLines(blockContentLines) ==
    Flatten([i \in 1..Len(blockContentLines) |-> ExpandLine(blockContentLines[i])])

\* property delimiting: a property ends when the depths are 0 and the line ends in ; } or ,
RECURSIVE DelimitProperties(_, _, _, _, _, _)
DelimitProperties(expandedLines, i, currentPropLines, braceDepth, parenDepth, properties) ==
    IF i > Len(expandedLines)
    THEN IF Len(currentPropLines) > 0 THEN Append(properties, currentPropLines) ELSE properties
    ELSE LET line == expandedLines[i]
             cur  == Append(currentPropLines, line)
             bd   == braceDepth + CountChar(line, "{") - CountChar(line, "}")
             pd   == parenDepth + CountChar(line, "(") - CountChar(line, ")")
             t    == Trim(line)
         IN  IF t = <<>> /\ Len(currentPropLines) = 0
             THEN DelimitProperties(expandedLines, i + 1, currentPropLines, braceDepth, parenDepth, properties)
             ELSE IF bd = 0 /\ pd = 0 /\ (EndsWith(t, <<";">>) \/ EndsWith(t, <<"}">>) \/ EndsWith(t, <<",">>))
             THEN DelimitProperties(expandedLines, i + 1, <<>>, bd, pd, Append(properties, cur))
             ELSE DelimitProperties(expandedLines, i + 1, cur, bd, pd, properties)

\* the tail (\s*\?)?\s*: of the alignment pattern, tried at index e
AlignTail(s, e) ==
    LET Suffix(i) ==
            IF At(s, i) = "?" THEN [ok |-> At(s, SkipWS(s, i + 1)) = ":", optional |-> TRUE]
            ELSE [ok |-> At(s, i) = ":", optional |-> FALSE]
    IN  Suffix(SkipWS(s, e))

\* firstLine.match(/^(\[.+?\]|[\w$]+)(\s*\?)?\s*:/); keyLength is the length of group 1,
\* 0 when group 1 matches nowhere
AlignMatch(firstLine) ==
    LET Keyed(keyLength, tail) ==
            IF keyLength > 0 /\ tail.ok
            THEN [ok |-> TRUE, keyLength |-> keyLength, optional |-> tail.optional]
            ELSE [ok |-> FALSE]
        Key(keyLength) == Keyed(keyLength, AlignTail(firstLine, keyLength))
        Bracket(ends) == IF ends = {} THEN 0 ELSE MinOf(ends)
    IN  Key(IF At(firstLine, 0) = "["
            THEN Bracket({e \in 3..Len(firstLine) :
                             At(firstLine, e - 1) = "]" /\ AlignTail(firstLine, e).ok})
            ELSE RunEnd(firstLine, 0, KeyChars))

\* the alignment match of every property, no match for one whose first line is a comment
AlignedProps(properties) ==
    [i \in 1..Len(properties) |->
        IF IsCommentStart(Trim(properties[i][1])) THEN [ok |-> FALSE]
        ELSE AlignMatch(Trim(properties[i][1]))]

maxKeyLengthOf(properties) ==
    LET Longest(aligned) ==
            MaxOf({0} \cup {aligned[i].keyLength : i \in {j \in DOMAIN aligned : aligned[j].ok}})
    IN  Longest(AlignedProps(properties))

hasOptionalOf(properties) ==
    LET Some(aligned) == \E i \in DOMAIN aligned : aligned[i].ok /\ aligned[i].optional
    IN  Some(AlignedProps(properties))

\* the index of the ")" that closes the "(" at index from, -1 when there is none
RECURSIVE ClosingParen(_, _, _)
ClosingParen(s, i, parenDepth) ==
    IF i >= Len(s) THEN -1
    ELSE IF At(s, i) = "(" THEN ClosingParen(s, i + 1, parenDepth + 1)
    ELSE IF At(s, i) = ")"
    THEN IF parenDepth - 1 = 0 THEN i ELSE ClosingParen(s, i + 1, parenDepth - 1)
    ELSE ClosingParen(s, i + 1, parenDepth)

\* trimmedFirstLine.match(/^([\w$]+(?:<[^>]+>)?)\s*\(/): index of the "(", -1 for no match
MethodMatch(t) ==
    LET Paren(e) == IF e # -1 /\ At(t, SkipWS(t, e)) = "(" THEN SkipWS(t, e) ELSE -1
    IN  Paren(KeyEnd(t, 0, KeyChars))

\* the match array [, key, params, optional, value] of one property's first line
NoParams == <<"null">>

PropertyMatch(t) ==
    LET Rest(closing) == SubFrom(t, closing + 1)
        Method(e, paren, closing, rc) ==
            IF closing # -1 /\ At(Rest(closing), rc) = ":"
            THEN [ok |-> TRUE, key |-> Sub(t, 0, e), params |-> Sub(t, paren, closing + 1),
                  optional |-> FALSE,
                  value |-> SubFrom(Rest(closing), SkipWS(Rest(closing), rc + 1))]
            ELSE [ok |-> FALSE]
        Property(e, q, c) ==
            IF e # -1 /\ At(t, c) = ":"
            THEN [ok |-> TRUE, key |-> Sub(t, 0, e), params |-> NoParams,
                  optional |-> At(t, q) = "?", value |-> SubFrom(t, SkipWS(t, c + 1))]
            ELSE [ok |-> FALSE]
        Colon(e, q) == Property(e, q, IF At(t, q) = "?" THEN SkipWS(t, q + 1) ELSE q)
        Match(e, paren, closing) ==
            IF paren # -1 THEN Method(e, paren, closing, SkipWS(Rest(closing), 0))
            ELSE Colon(e, SkipWS(t, e))
    IN  Match(KeyEnd(t, 0, KeyChars), MethodMatch(t), ClosingParen(t, MethodMatch(t), 0))

KeepIndent(prop, propertyIndent) == prop

\* prop.map(l => propertyIndent + l.trim())
Reindent(prop, propertyIndent) == [i \in 1..Len(prop) |-> propertyIndent \o Trim(prop[i])]

RECURSIVE formatBlockContent(_, _, _)
RECURSIVE FormatProperties(_, _, _, _, _, _, _)

\* the loop over the properties of one block; formattedLines is the output so far
FormatProperties(properties, propIndex, formattedLines, maxKeyLength, hasOptional, propertyIndent, config) ==
    LET prop             == properties[propIndex]
        trimmedFirstLine == Trim(prop[1])
        nestedContent    == SliceInner(prop)
        AlignedFirstLine(match) ==
            IF match.params # NoParams
            THEN propertyIndent \o PadEnd(match.key, maxKeyLength, <<" ">>) \o <<" ">> \o match.params
                 \o <<":", " ">> \o match.value
            ELSE propertyIndent \o PadEnd(match.key, maxKeyLength, <<" ">>)
                 \o (IF hasOptional THEN (IF match.optional THEN <<" ", "?">> ELSE <<" ", " ">>) ELSE <<>>)
                 \o <<" ", ":", " ">> \o match.value
        \* the lines the property is emitted as; methodFormattedLines is what
        \* formatMethodSignature returns for it
        Emitted(match, alignedFirstLine, methodFormattedLines) ==
            IF match.params # NoParams THEN methodFormattedLines
            ELSE IF Len(prop) = 1 THEN <<alignedFirstLine>>
            ELSE IF LastIndexOf(match.value, <<"{">>) = -1 THEN methodFormattedLines
            ELSE <<Sub(alignedFirstLine, 0, LastIndexOf(alignedFirstLine, <<"{">>) + 1)>>
                 \o (IF Len(nestedContent) > 0
                     THEN formatBlockContent(nestedContent, propertyIndent, config) ELSE <<>>)
                 \o <<propertyIndent \o Trim(prop[Len(prop)])>>
        Matched(match, methodFormattedLines) ==
            IF propIndex > Len(properties) THEN formattedLines
            ELSE IF IsCommentStart(trimmedFirstLine) \/ ~match.ok
            THEN FormatProperties(properties, propIndex + 1,
                                  formattedLines \o Reindent(prop, propertyIndent),
                                  maxKeyLength, hasOptional, propertyIndent, config)
            ELSE FormatProperties(properties, propIndex + 1,
                                  (IF match.params # NoParams /\ propIndex > 1 /\ Len(formattedLines) > 0
                                   THEN Append(formattedLines, <<>>) ELSE formattedLines)
                                  \o Emitted(match, AlignedFirstLine(match), methodFormattedLines),
                                  maxKeyLength, hasOptional, propertyIndent, config)
    IN  Matched(PropertyMatch(trimmedFirstLine),
                formatMethodSignature(prop, propertyIndent,
                                      AlignedFirstLine(PropertyMatch(trimmedFirstLine)), config))

formatBlockContent(blockContentLines, baseIndent, config) ==
    LET propertyIndent == baseIndent \o getIndentString(config)
        isUnionType    == \E i \in 1..Len(blockContentLines) : StartsWith(Trim(blockContentLines[i]), <<"|">>)
        nonBlank       == SelectSeq(blockContentLines, LAMBDA l : Trim(l) # <<>>)
        properties     == DelimitProperties(ExpandLines(blockContentLines), 1, <<>>, 0, 0, <<>>)
    IN  IF isUnionType
        THEN [i \in 1..Len(nonBlank) |-> propertyIndent \o Trim(nonBlank[i])]
        ELSE FormatProperties(properties, 1, <<>>, maxKeyLengthOf(properties),
                              hasOptionalOf(properties), propertyIndent, config)

\* part.match(/^(\w+)(\s*\?)?\s*:\s*(.+)$/) of extractPropertiesFromLine: w is the end of
\* group 1, q the index after the white space that follows it, c the index of ":"
SingleLinePropMatch(t) ==
    LET Match(w, q, c) ==
            IF w > 0 /\ At(t, c) = ":" /\ c + 1 < Len(t)
            THEN [ok |-> TRUE, name |-> Sub(t, 0, w), optional |-> At(t, q) = "?",
                  type |-> Trim(SubFrom(t, c + 1))]
            ELSE [ok |-> FALSE]
        Word(w, q) == Match(w, q, IF At(t, q) = "?" THEN SkipWS(t, q + 1) ELSE q)
    IN  Word(RunEnd(t, 0, WordChars), SkipWS(t, RunEnd(t, 0, WordChars)))

extractPropertiesFromLine(content) ==
    LET parts == FilterNonBlank(SplitOn(Trim(SliceInner(content)), {";", ","}, 0, <<>>))
        Lines(parsedProps) ==
            [i \in 1..Len(parsedProps) |->
                PadEnd(parsedProps[i].name,
                       MaxOf({0} \cup {Len(parsedProps[j].name) : j \in 1..Len(parsedProps)}), <<" ">>)
                \o (IF parsedProps[i].optional THEN <<" ", "?", " ", ":", " ">> ELSE <<" ", " ", " ", ":", " ">>)
                \o parsedProps[i].type \o <<";">>]
    IN  Lines(SelectSeq([i \in 1..Len(parts) |-> SingleLinePropMatch(Trim(parts[i]))],
                        LAMBDA m : m.ok))

\* line.match(/^(.+?{)\s*(.+?)\s*}(.*)$/): the candidates <<p, k, m>> are the index of
\* the "{", the white space skipped after it and the length of the content
SingleLineCandidates(line) ==
    {c \in (1..Len(line)) \X (0..Len(line)) \X (1..Len(line)) :
        /\ At(line, c[1]) = "{"
        /\ \A j \in (c[1] + 1)..(c[1] + c[2]) : IsWS(At(line, j))
        /\ c[1] + c[2] + c[3] < Len(line)
        /\ At(line, SkipWS(line, c[1] + 1 + c[2] + c[3])) = "}"}

\* the candidate the backtracking order finds first: least p, then most k, then least m
SingleLineMatch(line) ==
    LET Match(p, k, m) ==
            [ok |-> TRUE, prefix |-> Sub(line, 0, p + 1),
             content |-> Sub(line, p + 1 + k, p + 1 + k + m),
             suffix |-> SubFrom(line, SkipWS(line, p + 1 + k + m) + 1)]
        Least(cs, p, k) == Match(p, k, MinOf({c[3] : c \in {d \in cs : d[1] = p /\ d[2] = k}}))
        Most(cs, p) == Least(cs, p, MaxOf({c[2] : c \in {d \in cs : d[1] = p}}))
        First(cs) == IF cs = {} THEN [ok |-> FALSE] ELSE Most(cs, MinOf({c[1] : c \in cs}))
    IN  First(SingleLineCandidates(line))

formatSingleLineBlock(line, baseIndent, config) ==
    LET Block(match, props) ==
            IF ~match.ok THEN <<line>>
            ELSE <<match.prefix>>
                 \o [i \in 1..Len(props) |-> baseIndent \o getIndentString(config) \o props[i]]
                 \o <<baseIndent \o <<"}">> \o match.suffix>>
    IN  Block(SingleLineMatch(line),
              extractPropertiesFromLine(<<"{">> \o SingleLineMatch(line).content \o <<"}">>))

\* content.match(/^(.+?)(\/\/.*)$/): index of the first "//" after the first character
CommentIndex(content) == IndexOfFrom(content, <<"/", "/">>, 1)

\* the lines of one union member; props is what extractPropertiesFromLine returns for
\* the object part of the member
UnionMemberLines(line, baseIndent, indent) ==
    LET Content(trimmed) == Trim(SubFrom(trimmed, 1))
        ObjectPart(content, ci) == IF ci # -1 THEN Trim(Sub(content, 0, ci)) ELSE content
        Comment(content, ci) == IF ci # -1 THEN SubFrom(content, ci) ELSE <<>>
        Member(trimmed, content, comment, props) ==
            IF Includes(content, <<"{">>) /\ Includes(content, <<"}">>)
            THEN <<baseIndent \o indent \o <<"|", " ", "{">>>>
                 \o [i \in 1..Len(props) |-> baseIndent \o indent \o indent \o props[i]]
                 \o <<baseIndent \o indent \o <<"}">> \o (IF comment # <<>> THEN <<" ">> \o comment ELSE <<>>)>>
            ELSE <<baseIndent \o indent \o trimmed>>
        Line(trimmed, props) ==
            IF StartsWith(trimmed, <<"|">>)
            THEN Member(trimmed, Content(trimmed),
                        Comment(Content(trimmed), CommentIndex(Content(trimmed))), props)
            ELSE IF trimmed # <<>> THEN <<line>>
            ELSE <<>>
    IN  Line(Trim(line),
             extractPropertiesFromLine(ObjectPart(Content(Trim(line)),
                                                  CommentIndex(Content(Trim(line))))))

formatUnionType(blockLines, baseIndent, config) ==
    LET indent          == getIndentString(config)
        equalsLineIndex == MinOf({i \in 1..Len(blockLines) : Includes(blockLines[i], <<"=">>)})
    IN  <<blockLines[equalsLineIndex]>>
        \o Flatten([i \in 1..(Len(blockLines) - equalsLineIndex) |->
                       UnionMemberLines(blockLines[equalsLineIndex + i], baseIndent, indent)])

\* line.match(/=\s*\|/)
HasEqualsBar(line) ==
    \E i \in 0..(Len(line) - 1) : At(line, i) = "=" /\ At(line, SkipWS(line, i + 1)) = "|"

\* the formatted lines of one declaration region (one iteration of formatInterfaceBlocks);
\* unionLines, singleLineBlock and formattedContent are what formatUnionType,
\* formatSingleLineBlock and formatBlockContent return for the block
formatInterfaceBlock(blockLines, config) ==
    LET n                 == Len(blockLines)
        baseIndent        == LeadingWS(blockLines[1])
        indent            == getIndentString(config)
        isUnionType       ==
            \E i \in 1..n :
                \/ Includes(blockLines[i], <<"=">>) /\ i < n /\ StartsWith(Trim(blockLines[i + 1]), <<"|">>)
                \/ HasEqualsBar(blockLines[i])
        isSingleLineBlock == n = 1 /\ Includes(blockLines[1], <<"{">>) /\ Includes(blockLines[1], <<"}">>)
        BraceLineIndex(braceLines) == IF braceLines = {} THEN -1 ELSE MinOf(braceLines)
        braceLineIndex    == BraceLineIndex({i \in 1..n : Includes(blockLines[i], <<"{">>)})
        braceColumnIndex  == IndexOf(blockLines[braceLineIndex], <<"{">>)
        closingBraceIndex == LastIndexOf(blockLines[n], <<"}">>)
        First(braceLine, afterBrace) ==
            IF braceColumnIndex < Len(braceLine) - 1
               /\ afterBrace # <<>> /\ ~StartsWith(afterBrace, <<"}">>)
            THEN <<baseIndent \o indent \o afterBrace>> ELSE <<>>
        Last(beforeBrace) ==
            IF n > 1 /\ closingBraceIndex > 0 /\ beforeBrace # <<>>
            THEN <<baseIndent \o indent \o beforeBrace>> ELSE <<>>
        first             == First(blockLines[braceLineIndex],
                                   Trim(SubFrom(blockLines[braceLineIndex], braceColumnIndex + 1)))
        middle            == SubSeq(blockLines, braceLineIndex + 1, n - 1)
        last              == Last(Trim(Sub(blockLines[n], 0, closingBraceIndex)))
        Block(blockContent, foundContent, unionLines, singleLineBlock, formattedContent) ==
            IF braceLineIndex = -1
            THEN IF isUnionType THEN unionLines ELSE blockLines
            ELSE IF isUnionType THEN unionLines
            ELSE IF isSingleLineBlock THEN singleLineBlock
            ELSE SubSeq(blockLines, 1, braceLineIndex - 1)
                 \o <<Sub(blockLines[braceLineIndex], 0, braceColumnIndex + 1)>>
                 \o (IF foundContent /\ \E i \in 1..Len(blockContent) : Trim(blockContent[i]) # <<>>
                     THEN formattedContent ELSE <<>>)
                 \o <<baseIndent \o SubFrom(blockLines[n], closingBraceIndex)>>
    IN  Block(first \o middle \o last,
              first # <<>> \/ last # <<>> \/ \E i \in 1..Len(middle) : Trim(middle[i]) # <<>>,
              formatUnionType(blockLines, baseIndent, config),
              formatSingleLineBlock(blockLines[1], baseIndent, config),
              formatBlockContent(first \o middle \o last, baseIndent, config))

\* ---------------------------------------------------------------------------
\* Configuration loader (lib/config.js)
\* ---------------------------------------------------------------------------
DefaultColumnWidth == 120

Group(name, matchers) == [name |-> name, matchers |-> matchers]

OtherGroup == Group(<<"/", "/", " ", "O", "T", "H", "E", "R", " ">>, <<>>)

defaultConfig ==
    [HEADER_CHAR     |-> <<"=">>,
     TO_COLUMN_WIDTH |-> DefaultColumnWidth,
     EXPAND_METHODS  |-> TRUE,
     INDENT_TYPE     |-> "spaces",
     INDENT_SIZE     |-> DefaultIndentSize,
     groups |->
        <<Group(<<"/", "/", " ", "E", "X", "T", "E", "R", "N", "A", "L", " ">>, <<<<"\"", "r", "e", "a", "c", "t", "\"">>, <<"'", "r", "e", "a", "c", "t", "'">>, <<"n", "e", "x", "t", "/">>, <<"d", "n", "d", "-", "k", "i", "t", "/">>, <<"z", "u", "s", "t", "a", "n", "d">>,
                                  <<"f", "r", "a", "m", "e", "r", "-", "m", "o", "t", "i", "o", "n">>, <<"t", "i", "p", "t", "a", "p">>, <<"a", "x", "i", "o", "s">>, <<"t", "a", "n", "s", "t", "a", "c", "k">>, <<"v", "i", "t", "e">>, <<"p", "a", "t", "h">>,
                                  <<"t", "a", "u", "r", "i">>, <<"r", "e", "a", "c", "t", "-", "r", "o", "u", "t", "e", "r", "-", "d", "o", "m">>, <<"@", "r", "e", "a", "c", "t", "-", "o", "a", "u", "t", "h", "/", "g", "o", "o", "g", "l", "e">>, <<"g", "l", "o", "b", "b", "y">>>>),
          Group(<<"/", "/", " ", "C", "O", "N", "T", "E", "X", "T", "S", " ">>, <<<<"c", "o", "n", "t", "e", "x", "t", "s", "/">>>>),
          Group(<<"/", "/", " ", "C", "O", "M", "P", "O", "N", "E", "N", "T", "S", " ">>, <<<<"c", "o", "m", "p", "o", "n", "e", "n", "t", "s", "/">>>>),
          Group(<<"/", "/", " ", "C", "O", "N", "F", "I", "G", "S", " ">>, <<<<"c", "o", "n", "f", "i", "g", "s", "/">>>>),
          Group(<<"/", "/", " ", "L", "I", "B", " ">>, <<<<"l", "i", "b", "/">>>>),
          Group(<<"/", "/", " ", "L", "O", "G", "I", "C", " ">>, <<<<"l", "o", "g", "i", "c", "/">>>>),
          Group(<<"/", "/", " ", "D", "A", "T", "A", " ">>, <<<<"m", "o", "c", "k", "-", "d", "a", "t", "a", "/">>>>),
          Group(<<"/", "/", " ", "H", "O", "O", "K", "S", " ">>, <<<<"h", "o", "o", "k", "s", "/">>>>),
          Group(<<"/", "/", " ", "S", "T", "O", "R", "E", "S", " ">>, <<<<"s", "t", "o", "r", "e", "/">>>>),
          Group(<<"/", "/", " ", "S", "E", "R", "V", "I", "C", "E", "S", " ">>, <<<<"s", "e", "r", "v", "i", "c", "e", "s", "/">>>>),
          Group(<<"/", "/", " ", "S", "T", "Y", "L", "E", "S", " ">>, <<<<"s", "t", "y", "l", "e", "s", "/">>, <<".", "c", "s", "s">>>>),
          Group(<<"/", "/", " ", "T", "Y", "P", "E", "S", " ">>, <<<<"t", "y", "p", "e", "s">>, <<"t", "y", "p", "i", "n", "g", "s">>>>),
          Group(<<"/", "/", " ", "U", "T", "I", "L", "S", " ">>, <<<<"u", "t", "i", "l", "s", "/">>>>),
          Group(<<"/", "/", " ", "A", "S", "S", "E", "T", "S", " ">>, <<<<"a", "s", "s", "e", "t", "s", "/">>>>),
          OtherGroup>>]

\* c.toUpperCase() / c.toLowerCase() of one character
UpperChar(c) ==
    IF c \in Lower THEN AsciiLow[33 + (CHOOSE i \in 1..Len(AsciiHigh) : AsciiHigh[i] = c)] ELSE c

LowerChar(c) ==
    IF c \in Upper THEN AsciiHigh[(CHOOSE i \in 1..Len(AsciiLow) : AsciiLow[i] = c) - 33] ELSE c

toUpperCase(s) == [i \in 1..Len(s) |-> UpperChar(s[i])]

toLowerCase(s) == [i \in 1..Len(s) |-> LowerChar(s[i])]

\* the value of a run of decimal digits
RECURSIVE DigitsValue(_)
DigitsValue(ds) ==
    IF ds = <<>> THEN 0
    ELSE 10 * DigitsValue(SubSeq(ds, 1, Len(ds) - 1)) + (CodeUnit(ds[Len(ds)]) - 48)

\* parseInt(value, 10) || fallback : NaN and 0 are falsy
ParseIntOr(value, fallback) ==
    LET t      == Trim(value)
        signed == At(t, 0) \in {"-", "+"}
        from   == IF signed THEN 1 ELSE 0
        e      == RunEnd(t, from, Digits)
        n      == DigitsValue(Sub(t, from, e))
    IN  IF e = from \/ n = 0 THEN fallback
        ELSE IF At(t, 0) = "-" THEN 0 - n ELSE n

\* /^\[\s*groups\s*\]$/.test(trimmedLine)
IsGroupsSection(t) ==
    LET a == SkipWS(t, 1)
        b == SkipWS(t, a + 6)
    IN  At(t, 0) = "[" /\ Sub(t, a, a + 6) = <<"g", "r", "o", "u", "p", "s">> /\ At(t, b) = "]" /\ b = Len(t) - 1

\* parts[0] and parts.slice(1).join("=") of trimmedLine.split("=")
BeforeEquals(t) == IF IndexOf(t, <<"=">>) = -1 THEN t ELSE Sub(t, 0, IndexOf(t, <<"=">>))

AfterEquals(t) == IF IndexOf(t, <<"=">>) = -1 THEN <<>> ELSE SubFrom(t, IndexOf(t, <<"=">>) + 1)

\* key.replace(/^\/\/\s*/, "")
StripSlashes(key) == IF StartsWith(key, <<"/", "/">>) THEN SubFrom(key, SkipWS(key, 2)) ELSE key

\* m.trim().replace(/["']/g, "")
StripQuotes(m) == SelectSeq(Trim(m), LAMBDA c : c \notin {"\"", "'"})

\* the matcher list of one group line
ParseMatchers(value) ==
    LET raw == SplitOn(value, {","}, 0, <<>>)
    IN  IF value = <<>> THEN <<>>
        ELSE SelectSeq([i \in 1..Len(raw) |-> StripQuotes(raw[i])], LAMBDA m : m # <<>>)

UnlabelledGroup(trimmedLine) ==
    Group(Trim(BeforeEquals(trimmedLine)), ParseMatchers(Trim(AfterEquals(trimmedLine))))

\* one group line of the [groups] section
ParseGroupLine(trimmedLine) ==
    Group(<<"/", "/", " ">> \o toUpperCase(StripSlashes(Trim(BeforeEquals(trimmedLine)))) \o <<" ">>,
          ParseMatchers(Trim(AfterEquals(trimmedLine))))

\* one top-level key = value line
ApplySetting(config, trimmedLine) ==
    LET key   == Trim(BeforeEquals(trimmedLine))
        value == Trim(AfterEquals(trimmedLine))
    IN  IF key = <<"T", "O", "_", "C", "O", "L", "U", "M", "N", "_", "W", "I", "D", "T", "H">>
        THEN [config EXCEPT !.TO_COLUMN_WIDTH = ParseIntOr(value, defaultConfig.TO_COLUMN_WIDTH)]
        ELSE IF key = <<"H", "E", "A", "D", "E", "R", "_", "C", "H", "A", "R">>
        THEN [config EXCEPT !.HEADER_CHAR = IF value # <<>> THEN value ELSE defaultConfig.HEADER_CHAR]
        ELSE IF key = <<"E", "X", "P", "A", "N", "D", "_", "M", "E", "T", "H", "O", "D", "S">>
        THEN [config EXCEPT !.EXPAND_METHODS = (toLowerCase(value) = <<"t", "r", "u", "e">>)]
        ELSE IF key = <<"I", "N", "D", "E", "N", "T", "_", "T", "Y", "P", "E">>
        THEN [config EXCEPT !.INDENT_TYPE = IF value = <<"t", "a", "b", "s">> THEN "tabs" ELSE "spaces"]
        ELSE IF key = <<"I", "N", "D", "E", "N", "T", "_", "S", "I", "Z", "E">>
        THEN [config EXCEPT !.INDENT_SIZE = ParseIntOr(value, defaultConfig.INDENT_SIZE)]
        ELSE config

\* the loop over the lines of the configuration file
RECURSIVE ReadConfigLines(_, _, _, _, _)
ReadConfigLines(lines, i, inGroupsSection, customGroups, config) ==
    IF i > Len(lines)
    THEN IF Len(customGroups) > 0
         THEN [config EXCEPT !.groups = Append(customGroups, OtherGroup)]
         ELSE config
    ELSE LET trimmedLine == Trim(lines[i])
         IN  IF trimmedLine = <<>> \/ StartsWith(trimmedLine, <<"#">>)
             THEN ReadConfigLines(lines, i + 1, inGroupsSection, customGroups, config)
             ELSE IF IsGroupsSection(trimmedLine)
             THEN ReadConfigLines(lines, i + 1, TRUE, customGroups, config)
             ELSE IF StartsWith(trimmedLine, <<"[">>)
             THEN ReadConfigLines(lines, i + 1, FALSE, customGroups, config)
             ELSE IF inGroupsSection
             THEN ReadConfigLines(lines, i + 1, inGroupsSection,
                                  Append(customGroups, ParseGroupLine(trimmedLine)), config)
             ELSE ReadConfigLines(lines, i + 1, inGroupsSection, customGroups,
                                  ApplySetting(config, trimmedLine))

\* rc is the .seriseirc found by the upward search: [found, readable, lines]
loadConfig(rc) ==
    IF ~rc.found \/ ~rc.readable THEN defaultConfig
    ELSE ReadConfigLines(rc.lines, 1, FALSE, <<>>, defaultConfig)

\* ---------------------------------------------------------------------------
\* Import grouping and formatting engine (lib/import-formatter.js)
\* ---------------------------------------------------------------------------
\* the text padded to one column short of the width
PadOneShort(text, headerChar, columnWidth) ==
    IF Len(Trim(text)) >= columnWidth - 1 THEN Trim(text)
    ELSE PadEnd(Trim(text) \o <<" ">>, columnWidth - 1, headerChar)

createHeader(text, headerChar, columnWidth) ==
    LET trimmedText == Trim(text)
    IN  IF Len(trimmedText) >= columnWidth - 1 THEN trimmedText
        ELSE PadEnd(trimmedText \o <<" ">>, columnWidth, headerChar)

\* imp.replace(/\n\s*/g, " ")
RECURSIVE FlattenImport(_, _)
FlattenImport(imp, i) ==
    IF i >= Len(imp) THEN <<>>
    ELSE IF At(imp, i) = "\n" THEN <<" ">> \o FlattenImport(imp, SkipWS(imp, i + 1))
    ELSE <<At(imp, i)>> \o FlattenImport(imp, i + 1)

isOtherGroup(group) == Includes(group.name, <<"O", "T", "H", "E", "R">>) \/ Len(group.matchers) = 0

\* group.matcher(line)
GroupMatcher(group, line) ==
    IF isOtherGroup(group) THEN TRUE
    ELSE \E k \in 1..Len(group.matchers) : Includes(line, group.matchers[k])

\* the inner loop without its break: the last group that matches takes imp
LastMatchingGroup(groups, g, imp) ==
    LET hits == {h \in g..Len(groups) : GroupMatcher(groups[h], FlattenImport(imp, 0))}
    IN  IF hits = {} THEN 0 ELSE MaxOf(hits)

\* the inner loop over the groups: index of the group that takes imp, 0 when none does
RECURSIVE FirstMatchingGroup(_, _, _)
FirstMatchingGroup(groups, g, imp) ==
    IF g > Len(groups) THEN 0
    ELSE IF GroupMatcher(groups[g], FlattenImport(imp, 0)) THEN g
    ELSE FirstMatchingGroup(groups, g + 1, imp)

\* the outer loop over the statements: matches[g] is group g's list so far
RECURSIVE AssignImports(_, _, _, _, _)
AssignImports(importStatements, i, groups, processedImports, matches) ==
    IF i > Len(importStatements) THEN matches
    ELSE LET imp == importStatements[i]
             g   == FirstMatchingGroup(groups, 1, imp)
         IN  IF imp \in processedImports \/ g = 0
             THEN AssignImports(importStatements, i + 1, groups, processedImports, matches)
             ELSE AssignImports(importStatements, i + 1, groups, processedImports \cup {imp},
                                [matches EXCEPT ![g] = Append(@, imp)])

\* a < b in the order of Array.prototype.sort() without comparator: by UTF-16 code units
RECURSIVE CodeUnitLess(_, _)
CodeUnitLess(a, b) ==
    IF b = <<>> THEN FALSE
    ELSE IF a = <<>> THEN TRUE
    ELSE IF CodeUnit(Head(a)) # CodeUnit(Head(b)) THEN CodeUnit(Head(a)) < CodeUnit(Head(b))
    ELSE CodeUnitLess(Tail(a), Tail(b))

\* insertion of x into the sorted list xs, after the elements it is not less than
RECURSIVE InsertSorted(_, _)
InsertSorted(x, xs) ==
    IF xs = <<>> THEN <<x>>
    ELSE IF CodeUnitLess(x, Head(xs)) THEN <<x>> \o xs
    ELSE <<Head(xs)>> \o InsertSorted(x, Tail(xs))

\* the matches of a group left in the order they were pushed
KeepOrder(xs) == xs

\* group.matches.sort()
RECURSIVE SortStatements(_)
SortStatements(xs) ==
    IF xs = <<>> THEN <<>>
    ELSE InsertSorted(xs[Len(xs)], SortStatements(SubSeq(xs, 1, Len(xs) - 1)))

\* the emit loop pushing the single-line form of each statement
EmitFlattened(groups, matches, config) ==
    Flatten([g \in 1..Len(groups) |->
                IF Len(matches[g]) > 0
                THEN <<createHeader(groups[g].name, config.HEADER_CHAR, config.TO_COLUMN_WIDTH)>>
                     \o [k \in 1..Len(matches[g]) |-> FlattenImport(matches[g][k], 0)] \o << <<>> >>
                ELSE <<>>])

\* the emit loop: header, sorted statements and an empty line for each group with matches
EmitGroups(groups, matches, config) ==
    Flatten([g \in 1..Len(groups) |->
                IF Len(matches[g]) > 0
                THEN <<createHeader(groups[g].name, config.HEADER_CHAR, config.TO_COLUMN_WIDTH)>>
                     \o SortStatements(matches[g]) \o << <<>> >>
                ELSE <<>>])

\* the result returned without the final pop: the last group's empty line is kept
KeepTrailingBlank(importStatements, config) ==
    EmitGroups(config.groups,
               AssignImports(importStatements, 1, config.groups, {},
                             [g \in 1..Len(config.groups) |-> <<>>]),
               config)

groupAndFormatImports(importStatements, config) ==
    LET groups  == config.groups
        matches == AssignImports(importStatements, 1, groups, {},
                                 [g \in 1..Len(groups) |-> <<>>])
        result  == EmitGroups(groups, matches, config)
    IN  IF Len(result) > 0 /\ result[Len(result)] = <<>>
        THEN SubSeq(result, 1, Len(result) - 1)
        ELSE result

\* ---------------------------------------------------------------------------
\* The standalone script (serisei-formatter.js): its own configuration loader,
\* boundary locators, declaration formatter and file driver.  Where the script
\* holds a function under the name of a lib function with a different body,
\* the operator carries the suffix Standalone.
\* ---------------------------------------------------------------------------
defaultConfigStandalone ==
    [HEADER_CHAR     |-> <<"=">>,
     TO_COLUMN_WIDTH |-> DefaultColumnWidth,
     groups |->
        <<Group(<<"/", "/", " ", "E", "X", "T", "E", "R", "N", "A", "L", " ">>, <<<<"\"", "r", "e", "a", "c", "t", "\"">>, <<"'", "r", "e", "a", "c", "t", "'">>, <<"n", "e", "x", "t", "/">>, <<"d", "n", "d", "-", "k", "i", "t", "/">>, <<"z", "u", "s", "t", "a", "n", "d">>,
                                  <<"f", "r", "a", "m", "e", "r", "-", "m", "o", "t", "i", "o", "n">>, <<"t", "i", "p", "t", "a", "p">>, <<"a", "x", "i", "o", "s">>, <<"t", "a", "n", "s", "t", "a", "c", "k">>, <<"v", "i", "t", "e">>, <<"p", "a", "t", "h">>,
                                  <<"t", "a", "u", "r", "i">>, <<"r", "e", "a", "c", "t", "-", "r", "o", "u", "t", "e", "r", "-", "d", "o", "m">>, <<"@", "r", "e", "a", "c", "t", "-", "o", "a", "u", "t", "h", "/", "g", "o", "o", "g", "l", "e">>, <<"g", "l", "o", "b", "b", "y">>>>),
          Group(<<"/", "/", " ", "F", "I", "C", "T", "O", "A", "N", " ">>, <<<<"f", "i", "c", "t", "o", "a", "n", "-", "r", "e", "a", "c", "t">>>>),
          Group(<<"/", "/", " ", "C", "O", "N", "T", "E", "X", "T", "S", " ">>, <<<<"c", "o", "n", "t", "e", "x", "t", "s", "/">>>>),
          Group(<<"/", "/", " ", "C", "O", "M", "P", "O", "N", "E", "N", "T", "S", " ">>, <<<<"c", "o", "m", "p", "o", "n", "e", "n", "t", "s", "/">>>>),
          Group(<<"/", "/", " ", "C", "O", "N", "F", "I", "G", "S", " ">>, <<<<"c", "o", "n", "f", "i", "g", "s", "/">>>>),
          Group(<<"/", "/", " ", "L", "I", "B", " ">>, <<<<"l", "i", "b", "/">>>>),
          Group(<<"/", "/", " ", "L", "O", "G", "I", "C", " ">>, <<<<"l", "o", "g", "i", "c", "/">>>>),
          Group(<<"/", "/", " ", "D", "A", "T", "A", " ">>, <<<<"m", "o", "c", "k", "-", "d", "a", "t", "a", "/">>>>),
          Group(<<"/", "/", " ", "H", "O", "O", "K", "S", " ">>, <<<<"h", "o", "o", "k", "s", "/">>>>),
          Group(<<"/", "/", " ", "S", "T", "O", "R", "E", "S", " ">>, <<<<"s", "t", "o", "r", "e", "/">>>>),
          Group(<<"/", "/", " ", "S", "E", "R", "V", "I", "C", "E", "S", " ">>, <<<<"s", "e", "r", "v", "i", "c", "e", "s", "/">>>>),
          Group(<<"/", "/", " ", "S", "T", "Y", "L", "E", "S", " ">>, <<<<"s", "t", "y", "l", "e", "s", "/">>, <<".", "c", "s", "s">>>>),
          Group(<<"/", "/", " ", "T", "Y", "P", "E", "S", " ">>, <<<<"t", "y", "p", "e", "s">>, <<"t", "y", "p", "i", "n", "g", "s">>>>),
          Group(<<"/", "/", " ", "U", "T", "I", "L", "S", " ">>, <<<<"u", "t", "i", "l", "s", "/">>>>),
          Group(<<"/", "/", " ", "A", "S", "S", "E", "T", "S", " ">>, <<<<"a", "s", "s", "e", "t", "s", "/">>>>),
          OtherGroup>>]

\* one top-level key = value line: the script knows two keys
ApplySettingStandalone(config, trimmedLine) ==
    LET key   == Trim(BeforeEquals(trimmedLine))
        value == Trim(AfterEquals(trimmedLine))
    IN  IF key = <<"T", "O", "_", "C", "O", "L", "U", "M", "N", "_", "W", "I", "D", "T", "H">>
        THEN [config EXCEPT !.TO_COLUMN_WIDTH = ParseIntOr(value, defaultConfigStandalone.TO_COLUMN_WIDTH)]
        ELSE IF key = <<"H", "E", "A", "D", "E", "R", "_", "C", "H", "A", "R">>
        THEN [config EXCEPT !.HEADER_CHAR = IF value # <<>> THEN value ELSE defaultConfigStandalone.HEADER_CHAR]
        ELSE config

RECURSIVE ReadConfigLinesStandalone(_, _, _, _, _)
ReadConfigLinesStandalone(lines, i, inGroupsSection, customGroups, config) ==
    IF i > Len(lines)
    THEN IF Len(customGroups) > 0
         THEN [config EXCEPT !.groups = Append(customGroups, OtherGroup)]
         ELSE config
    ELSE LET trimmedLine == Trim(lines[i])
         IN  IF trimmedLine = <<>> \/ StartsWith(trimmedLine, <<"#">>)
             THEN ReadConfigLinesStandalone(lines, i + 1, inGroupsSection, customGroups, config)
             ELSE IF IsGroupsSection(trimmedLine)
             THEN ReadConfigLinesStandalone(lines, i + 1, TRUE, customGroups, config)
             ELSE IF StartsWith(trimmedLine, <<"[">>)
             THEN ReadConfigLinesStandalone(lines, i + 1, FALSE, customGroups, config)
             ELSE IF inGroupsSection
             THEN ReadConfigLinesStandalone(lines, i + 1, inGroupsSection,
                                            Append(customGroups, ParseGroupLine(trimmedLine)), config)
             ELSE ReadConfigLinesStandalone(lines, i + 1, inGroupsSection, customGroups,
                                            ApplySettingStandalone(config, trimmedLine))

loadConfigStandalone(rc) ==
    IF ~rc.found \/ ~rc.readable THEN defaultConfigStandalone
    ELSE ReadConfigLinesStandalone(rc.lines, 1, FALSE, <<>>, defaultConfigStandalone)

\* the elements of a set of numbers in ascending order
RECURSIVE Ascending(_)
Ascending(S) == IF S = {} THEN <<>> ELSE <<MinOf(S)>> \o Ascending(S \ {MinOf(S)})

\* the characters of a string
CharsOf(s) == {s[i] : i \in 1..Len(s)}

\* parse(code) throws on a file that holds a statement that is no TypeScript
UnparsableLines == {<<"c", "o", "n", "s", "t", " ", "=", " ", ";">>}

parseFails(lines) == \E i \in 1..Len(lines) : Trim(lines[i]) \in UnparsableLines

\* a line the parser reports as an ImportDeclaration node (one line each)
IsImportLine(line) == StartsWith(Trim(line), <<"i", "m", "p", "o", "r", "t", " ">>)

\* generate(node).code: the statement printed from its node, without the white
\* space around it and with its terminating ";"
generate(line) ==
    LET t == Trim(line) IN IF EndsWith(t, <<";">>) THEN t ELSE t \o <<";">>

\* new RegExp("^\\s*//.*\\s[" + HEADER_CHAR + "]").test(line)
headerRegexTest(line, headerChar) ==
    LET s == SkipWS(line, 0)
    IN  /\ Sub(line, s, s + 2) = <<"/", "/">>
        /\ \E k \in (s + 2)..(Len(line) - 2) :
              IsWS(At(line, k)) /\ At(line, k + 1) \in CharsOf(headerChar)

\* the backward loop from the line before the first import
RECURSIVE BlockStart(_, _, _, _)
BlockStart(lines, i, blockStart, config) ==
    IF i < 0 THEN blockStart
    ELSE LET line == Trim(lines[i + 1])
         IN  IF line = <<>> \/ headerRegexTest(line, config.HEADER_CHAR)
             THEN BlockStart(lines, i - 1, i, config)
             ELSE blockStart

\* the forward loop from the line after the last import
RECURSIVE BlockEnd(_, _, _)
BlockEnd(lines, i, blockEnd) ==
    IF i >= Len(lines) THEN blockEnd
    ELSE LET line == Trim(lines[i + 1])
         IN  IF line = <<>> \/ IsCommentStart(line)
             THEN BlockEnd(lines, i + 1, i)
             ELSE blockEnd

\* line numbers are the 0-based numbers of the source
extractImports(lines, config) ==
    LET Statements(ordered) == [k \in 1..Len(ordered) |-> generate(lines[ordered[k] + 1])]
        Extracted(importLines, firstImportLine, lastImportLine) ==
            IF parseFails(lines) \/ importLines = {}
            THEN [importStatements |-> <<>>, linesToRemove |-> {}]
            ELSE [importStatements |-> Statements(Ascending(importLines)),
                  linesToRemove    |->
                      importLines
                      \cup (BlockStart(lines, firstImportLine - 1, firstImportLine, config)
                            ..BlockEnd(lines, lastImportLine + 1, lastImportLine))]
        Found(importLines) == Extracted(importLines, MinOf(importLines), MaxOf(importLines))
    IN  Found({i \in 0..(Len(lines) - 1) : IsImportLine(lines[i + 1])})

\* the first line of a TSInterfaceDeclaration, a TSTypeAliasDeclaration or an
\* ExportNamedDeclaration of one of them
IsDeclarationStart(line) ==
    LET t == Trim(line)
    IN  \/ StartsWith(t, <<"i", "n", "t", "e", "r", "f", "a", "c", "e", " ">>)
        \/ StartsWith(t, <<"t", "y", "p", "e", " ">>)
        \/ StartsWith(t, <<"e", "x", "p", "o", "r", "t", " ", "i", "n", "t", "e", "r", "f", "a", "c", "e", " ">>)
        \/ StartsWith(t, <<"e", "x", "p", "o", "r", "t", " ", "t", "y", "p", "e", " ">>)

\* node.loc.end.line - 1 of the declaration that starts at line i: the line that
\* closes its braces and ends it
RECURSIVE DeclarationEnd(_, _, _)
DeclarationEnd(lines, i, depth) ==
    LET d == depth + CountChar(lines[i + 1], "{") - CountChar(lines[i + 1], "}")
        t == Trim(lines[i + 1])
    IN  IF i >= Len(lines) - 1 THEN i
        ELSE IF d <= 0 /\ (EndsWith(t, <<";">>) \/ EndsWith(t, <<"}">>)) THEN i
        ELSE DeclarationEnd(lines, i + 1, d)

RECURSIVE ScanBlocks(_, _)
ScanBlocks(lines, i) ==
    IF i >= Len(lines) THEN <<>>
    ELSE IF IsDeclarationStart(lines[i + 1])
    THEN <<[startLine |-> i, endLine |-> DeclarationEnd(lines, i, 0)]>>
         \o ScanBlocks(lines, DeclarationEnd(lines, i, 0) + 1)
    ELSE ScanBlocks(lines, i + 1)

extractInterfaceBlocks(lines) ==
    LET blocks == ScanBlocks(lines, 0)
    IN  IF parseFails(lines)
        THEN [interfaceBlocks |-> <<>>, linesToRemove |-> {}]
        ELSE [interfaceBlocks |-> blocks,
              linesToRemove   |-> UNION {blocks[b].startLine..blocks[b].endLine : b \in 1..Len(blocks)}]

\* arr.join(sep)
RECURSIVE JoinWith(_, _)
JoinWith(arr, sep) ==
    IF arr = <<>> THEN <<>>
    ELSE IF Len(arr) = 1 THEN arr[1]
    ELSE arr[1] \o sep \o JoinWith(Tail(arr), sep)

\* s.replace(/\s+/g, " ")
RECURSIVE CollapseWS(_, _)
CollapseWS(s, i) ==
    IF i >= Len(s) THEN <<>>
    ELSE IF IsWS(At(s, i)) THEN <<" ">> \o CollapseWS(s, SkipWS(s, i))
    ELSE <<At(s, i)>> \o CollapseWS(s, i + 1)

\* value.replace(/(\S)\(/, "$1 (")
SpaceBeforeParen(value) ==
    LET hits == {i \in 1..(Len(value) - 1) : At(value, i) = "(" /\ ~IsWS(At(value, i - 1))}
    IN  IF hits = {} THEN value
        ELSE Sub(value, 0, MinOf(hits)) \o <<" ">> \o SubFrom(value, MinOf(hits))

\* the lines of one parameter whose type holds an inline object
InlineObjectParamLinesStandalone(line, param, comma, paramIndent) ==
    LET objectContent == SubFrom(param.type, IndexOf(param.type, <<"{">>))
        closeIndex    == LastIndexOf(objectContent, <<"}">>)
        Props(withColon) ==
            [i \in 1..Len(withColon) |->
                [name |-> Trim(Sub(withColon[i], 0, IndexOf(withColon[i], <<":">>))),
                 type |-> Trim(SubFrom(withColon[i], IndexOf(withColon[i], <<":">>) + 1))]]
        Object(beforeBrace, afterObj, parsedProps) ==
            IF closeIndex >= 2
            THEN <<Sub(line, 0, LastIndexOf(line, <<":">>) + 1) \o <<" ">> \o beforeBrace \o <<" ", "{">>>>
                 \o [i \in 1..Len(parsedProps) |->
                        paramIndent \o <<" ", " ", " ", " ", " ", " ", " ", " ">>
                        \o PadEnd(parsedProps[i].name,
                                  MaxOf({0} \cup {Len(parsedProps[j].name) : j \in 1..Len(parsedProps)}), <<" ">>)
                        \o <<" ", ":", " ">> \o parsedProps[i].type
                        \o (IF i = Len(parsedProps) THEN <<>> ELSE <<";">>)]
                 \o <<paramIndent \o <<" ", " ", " ", " ", "}">> \o afterObj \o comma>>
            ELSE <<line \o comma>>
    IN  Object(Trim(Sub(param.type, 0, IndexOf(param.type, <<"{">>))),
               SubFrom(objectContent, closeIndex + 1),
               Props(SelectSeq(FilterNonBlank(SplitOn(Trim(Sub(objectContent, 1, closeIndex)),
                                                      {";", ","}, 0, <<>>)),
                               LAMBDA prop : IndexOf(prop, <<":">>) > 0)))

\* the lines of all parameters of one signature
ParameterLinesStandalone(parameters, propertyIndent) ==
    LET paramIndent    == propertyIndent \o <<" ", " ", " ", " ">>
        maxParamLength == MaxOf({0} \cup {Len(parameters[i].name) : i \in 1..Len(parameters)})
        hasOptional    == \E i \in 1..Len(parameters) : parameters[i].optional
        Line(param) ==
            paramIndent \o PadEnd(param.name, maxParamLength, <<" ">>)
            \o (IF hasOptional THEN (IF param.optional THEN <<" ", "?">> ELSE <<" ", " ">>) ELSE <<>>)
            \o <<" ", ":", " ">> \o param.type
        Comma(i) == IF i < Len(parameters) THEN <<",">> ELSE <<>>
    IN  Flatten([i \in 1..Len(parameters) |->
            IF Includes(parameters[i].type, <<"{">>) /\ Includes(parameters[i].type, <<"}">>)
            THEN InlineObjectParamLinesStandalone(Line(parameters[i]), parameters[i], Comma(i), paramIndent)
            ELSE <<Line(parameters[i]) \o Comma(i)>>])

\* fullSignature is the method's lines joined with their white space collapsed,
\* p the index of its first ":" and signature group 1 of fullSignature.match(/:\s*(.+)$/)
formatMethodSignatureStandalone(methodLines, propertyIndent, alignedFirstLine) ==
    LET colonIndex    == IndexOf(alignedFirstLine, <<" ", ":", " ">>)
        fallback      == <<alignedFirstLine>>
                         \o [i \in 1..(Len(methodLines) - 1) |->
                                propertyIndent \o <<" ", " ", " ", " ">> \o Trim(methodLines[i + 1])]
        fullSignature == CollapseWS(JoinWith([i \in 1..Len(methodLines) |-> Trim(methodLines[i])], <<" ">>), 0)
        Formatted(signature, openParenIndex, closeParenIndex, parametersStr) ==
            IF openParenIndex = -1 \/ closeParenIndex = -1 THEN fallback
            ELSE <<Sub(alignedFirstLine, 0, colonIndex) \o <<" ", ":", " ">> \o Sub(signature, 0, openParenIndex) \o <<" ", "(">>>>
                 \o (IF Trim(parametersStr) # <<>>
                     THEN ParameterLinesStandalone(parseParameters(parametersStr), propertyIndent)
                     ELSE <<>>)
                 \o <<propertyIndent \o <<")">> \o SubFrom(signature, closeParenIndex + 1)>>
        Signature(signature, openParenIndex) ==
            Formatted(signature, openParenIndex, ClosingParen(signature, openParenIndex, 0),
                      Sub(signature, openParenIndex + 1, ClosingParen(signature, openParenIndex, 0)))
        Matched(p, signature) ==
            IF colonIndex = -1 \/ p = -1 \/ p + 1 >= Len(fullSignature) THEN fallback
            ELSE Signature(signature, IndexOf(signature, <<"(">>))
    IN  Matched(IndexOf(fullSignature, <<":">>),
                IF SkipWS(fullSignature, IndexOf(fullSignature, <<":">>) + 1) < Len(fullSignature)
                THEN SubFrom(fullSignature, SkipWS(fullSignature, IndexOf(fullSignature, <<":">>) + 1))
                ELSE SubFrom(fullSignature, Len(fullSignature) - 1))

\* trimmedFirstLine.match(/^(\[.+?\]|[\w$]+)(\s*\?)?\s*:\s*(.*)$/): m is the match of the
\* alignment pattern, q the index after the white space that follows the key
PropertyMatchStandalone(t) ==
    LET Match(m, q) ==
            IF ~m.ok THEN [ok |-> FALSE]
            ELSE [ok |-> TRUE, key |-> Sub(t, 0, m.keyLength), optional |-> m.optional,
                  value |-> SubFrom(t, SkipWS(t, (IF At(t, q) = "?" THEN SkipWS(t, q + 1) ELSE q) + 1))]
        Key(m) == Match(m, SkipWS(t, m.keyLength))
    IN  Key(AlignMatch(t))

RECURSIVE formatBlockContentStandalone(_, _)
RECURSIVE FormatPropertiesStandalone(_, _, _, _, _, _)

\* the loop over the properties of one block; formattedLines is the output so far
FormatPropertiesStandalone(properties, propIndex, formattedLines, maxKeyLength, hasOptional, propertyIndent) ==
    LET prop             == properties[propIndex]
        trimmedFirstLine == Trim(prop[1])
        nestedContent    == SliceInner(prop)
        IsMethod(match) ==
            \/ Includes(match.value, <<"(">>)
            \/ Len(prop) > 1 /\ \E i \in 1..Len(prop) : Includes(prop[i], <<"(">>)
        AlignedFirstLine(match) ==
            propertyIndent \o PadEnd(match.key, maxKeyLength, <<" ">>)
            \o (IF hasOptional THEN (IF match.optional THEN <<" ", "?">> ELSE <<" ", " ">>) ELSE <<>>)
            \o <<" ", ":", " ">> \o (IF IsMethod(match) THEN SpaceBeforeParen(match.value) ELSE match.value)
        \* the lines the property is emitted as; methodFormattedLines is what
        \* formatMethodSignature returns for it
        Emitted(match, alignedFirstLine, methodFormattedLines) ==
            IF IsMethod(match) THEN methodFormattedLines
            ELSE IF Len(prop) = 1 THEN <<alignedFirstLine>>
            ELSE IF LastIndexOf(match.value, <<"{">>) = -1 THEN methodFormattedLines
            ELSE <<Sub(alignedFirstLine, 0, LastIndexOf(alignedFirstLine, <<"{">>) + 1)>>
                 \o (IF Len(nestedContent) > 0
                     THEN formatBlockContentStandalone(nestedContent, propertyIndent) ELSE <<>>)
                 \o <<propertyIndent \o Trim(prop[Len(prop)])>>
        Matched(match, methodFormattedLines) ==
            IF propIndex > Len(properties) THEN formattedLines
            ELSE IF IsCommentStart(trimmedFirstLine) \/ ~match.ok
            THEN FormatPropertiesStandalone(properties, propIndex + 1,
                                            formattedLines \o Reindent(prop, propertyIndent),
                                            maxKeyLength, hasOptional, propertyIndent)
            ELSE FormatPropertiesStandalone(properties, propIndex + 1,
                                            (IF IsMethod(match) /\ propIndex > 1 /\ Len(formattedLines) > 0
                                             THEN Append(formattedLines, <<>>) ELSE formattedLines)
                                            \o Emitted(match, AlignedFirstLine(match), methodFormattedLines),
                                            maxKeyLength, hasOptional, propertyIndent)
    IN  Matched(PropertyMatchStandalone(trimmedFirstLine),
                formatMethodSignatureStandalone(
                    prop, propertyIndent,
                    AlignedFirstLine(PropertyMatchStandalone(trimmedFirstLine))))

formatBlockContentStandalone(blockContentLines, baseIndent) ==
    LET properties == DelimitProperties(ExpandLines(blockContentLines), 1, <<>>, 0, 0, <<>>)
    IN  FormatPropertiesStandalone(properties, 1, <<>>, maxKeyLengthOf(properties),
                                   hasOptionalOf(properties), baseIndent \o <<" ", " ", " ", " ">>)

\* the formatted lines of one block (one iteration of the loop of formatInterfaceBlocks);
\* formattedContent is what formatBlockContent returns for the block
FormatBlockLinesStandalone(blockLines) ==
    LET n                 == Len(blockLines)
        baseIndent        == LeadingWS(blockLines[1])
        BraceLineIndex(braceLines) == IF braceLines = {} THEN -1 ELSE MinOf(braceLines)
        braceLineIndex    == BraceLineIndex({i \in 1..n : Includes(blockLines[i], <<"{">>)})
        braceColumnIndex  == IndexOf(blockLines[braceLineIndex], <<"{">>)
        closingBraceIndex == LastIndexOf(blockLines[n], <<"}">>)
        First(braceLine, afterBrace) ==
            IF braceColumnIndex < Len(braceLine) - 1
               /\ afterBrace # <<>> /\ ~StartsWith(afterBrace, <<"}">>)
            THEN <<baseIndent \o <<" ", " ", " ", " ">> \o afterBrace>> ELSE <<>>
        Last(beforeBrace) ==
            IF n > 1 /\ closingBraceIndex > 0 /\ beforeBrace # <<>>
            THEN <<baseIndent \o <<" ", " ", " ", " ">> \o beforeBrace>> ELSE <<>>
        first             == First(blockLines[braceLineIndex],
                                   Trim(SubFrom(blockLines[braceLineIndex], braceColumnIndex + 1)))
        middle            == SubSeq(blockLines, braceLineIndex + 1, n - 1)
        last              == Last(Trim(Sub(blockLines[n], 0, closingBraceIndex)))
        Block(blockContent, foundContent, formattedContent) ==
            IF braceLineIndex = -1 THEN blockLines
            ELSE SubSeq(blockLines, 1, braceLineIndex - 1)
                 \o <<Sub(blockLines[braceLineIndex], 0, braceColumnIndex + 1)>>
                 \o (IF foundContent /\ \E i \in 1..Len(blockContent) : Trim(blockContent[i]) # <<>>
                     THEN formattedContent ELSE <<>>)
                 \o <<baseIndent \o SubFrom(blockLines[n], closingBraceIndex)>>
    IN  Block(first \o middle \o last,
              first # <<>> \/ last # <<>> \/ \E i \in 1..Len(middle) : Trim(middle[i]) # <<>>,
              formatBlockContentStandalone(first \o middle \o last, baseIndent))

formatInterfaceBlocksStandalone(interfaceBlocks, originalLines) ==
    [b \in 1..Len(interfaceBlocks) |->
        [startLine      |-> interfaceBlocks[b].startLine,
         endLine        |-> interfaceBlocks[b].endLine,
         formattedLines |-> FormatBlockLinesStandalone(
                                SubSeq(originalLines, interfaceBlocks[b].startLine + 1,
                                       interfaceBlocks[b].endLine + 1))]]

\* /^["']use (client|server|strict)["'];?$/.test(trimmedLine)
isDirective(trimmedLine) ==
    LET body == StripFinalSemi(trimmedLine)
    IN  /\ Len(body) >= 2
        /\ body[1] \in {"\"", "'"}
        /\ body[Len(body)] \in {"\"", "'"}
        /\ SliceInner(body) \in {<<"u", "s", "e", " ", "c", "l", "i", "e", "n", "t">>, <<"u", "s", "e", " ", "s", "e", "r", "v", "e", "r">>, <<"u", "s", "e", " ", "s", "t", "r", "i", "c", "t">>}

\* the loop that copies the file header: the index of the line it breaks at
RECURSIVE HeaderEnd(_, _, _, _)
HeaderEnd(lines, i, allLinesToRemove, interfaceLinesToRemove) ==
    IF i >= Len(lines) THEN i
    ELSE LET trimmedLine == Trim(lines[i + 1])
         IN  IF i \in allLinesToRemove /\ StartsWith(trimmedLine, <<"i", "m", "p", "o", "r", "t">>) THEN i
             ELSE IF i \in interfaceLinesToRemove THEN i
             ELSE IF trimmedLine # <<>> /\ ~IsCommentStart(trimmedLine) /\ ~isDirective(trimmedLine) THEN i
             ELSE HeaderEnd(lines, i + 1, allLinesToRemove, interfaceLinesToRemove)

\* the loop over the rest of the file
RECURSIVE RestOfFile(_, _, _, _)
RestOfFile(lines, i, formattedInterfaceBlocks, allLinesToRemove) ==
    LET starting == {b \in 1..Len(formattedInterfaceBlocks) : formattedInterfaceBlocks[b].startLine = i}
        block    == formattedInterfaceBlocks[MaxOf(starting)]
    IN  IF i >= Len(lines) THEN <<>>
        ELSE IF starting # {}
        THEN block.formattedLines
             \o RestOfFile(lines, block.endLine + 1, formattedInterfaceBlocks, allLinesToRemove)
        ELSE IF i \in allLinesToRemove
        THEN RestOfFile(lines, i + 1, formattedInterfaceBlocks, allLinesToRemove)
        ELSE <<lines[i + 1]>> \o RestOfFile(lines, i + 1, formattedInterfaceBlocks, allLinesToRemove)

\* the lines of the file after processFile; lines are the lines of the file before.
\* newImportLines and formattedInterfaceBlocks are what groupAndFormatImports and
\* formatInterfaceBlocks return when there is something to format
processFile(lines, config) ==
    LET hasContent == \E i \in 1..Len(lines) :
                          Trim(lines[i]) # <<>> /\ ~StartsWith(Trim(lines[i]), <<"/", "/">>)
        Injected(header, newImportLines) ==
            IF Len(newImportLines) > 0
            THEN (IF Len(header) > 0 /\ Trim(header[Len(header)]) # <<>>
                  THEN Append(header, <<>>) ELSE header) \o newImportLines
            ELSE header
        HasSubsequentCode(headerEndIndex, allLinesToRemove) ==
            \E i \in headerEndIndex..(Len(lines) - 1) :
                /\ i \notin allLinesToRemove
                /\ Trim(lines[i + 1]) # <<>>
                /\ ~IsCommentStart(Trim(lines[i + 1]))
        File(imports, interfaces, allLinesToRemove, headerEndIndex, newImportLines,
             formattedInterfaceBlocks) ==
            IF /\ Len(imports.importStatements) = 0 /\ Len(interfaces.interfaceBlocks) = 0
               /\ allLinesToRemove = {} /\ hasContent
            THEN lines
            ELSE (IF Len(newImportLines) > 0 /\ HasSubsequentCode(headerEndIndex, allLinesToRemove)
                  THEN Append(Injected(SubSeq(lines, 1, headerEndIndex), newImportLines), <<>>)
                  ELSE Injected(SubSeq(lines, 1, headerEndIndex), newImportLines))
                 \o RestOfFile(lines, headerEndIndex, formattedInterfaceBlocks, allLinesToRemove)
        Extracted(imports, interfaces, newImportLines, formattedInterfaceBlocks) ==
            File(imports, interfaces, imports.linesToRemove \cup interfaces.linesToRemove,
                 HeaderEnd(lines, 0, imports.linesToRemove \cup interfaces.linesToRemove,
                           interfaces.linesToRemove),
                 newImportLines, formattedInterfaceBlocks)
    IN  Extracted(extractImports(lines, config), extractInterfaceBlocks(lines),
                  IF Len(extractImports(lines, config).importStatements) > 0
                  THEN groupAndFormatImports(extractImports(lines, config).importStatements, config)
                  ELSE <<>>,
                  IF Len(extractInterfaceBlocks(lines).interfaceBlocks) > 0
                  THEN formatInterfaceBlocksStandalone(extractInterfaceBlocks(lines).interfaceBlocks, lines)
                  ELSE <<>>)

\* ---------------------------------------------------------------------------
\* Indentation detector (lib/indent.js)
\* ---------------------------------------------------------------------------
\* the smaller of the two sizes
SmallerOf(a, b) == IF a < b THEN a ELSE b

\* const gcd = (a, b) => b === 0 ? a : gcd(b, a % b)
RECURSIVE gcd(_, _)
gcd(a, b) == IF b = 0 THEN a ELSE gcd(b, a % b)

detectIndentStyle(lines) ==
    LET indented   == {i \in 1..Len(lines) : Trim(lines[i]) # <<>> /\ LeadingWS(lines[i]) # <<>>}
        withTab    == {i \in indented : "\t" \in CharsOf(LeadingWS(lines[i]))}
        tabCount   == Cardinality(withTab)
        spaceCount == Cardinality(indented \ withTab)
        spaceSizes == SelectSeq([i \in 1..Len(lines) |->
                                    IF i \in indented \ withTab THEN Len(LeadingWS(lines[i])) ELSE 0],
                                LAMBDA spaceSize : spaceSize > 0 /\ spaceSize <= 8)
        RECURSIVE Loop(_, _)
        Loop(i, indentSize) ==
            IF i > Len(spaceSizes) \/ indentSize = 1 THEN indentSize
            ELSE Loop(i + 1, gcd(indentSize, spaceSizes[i]))
        Reasonable(indentSize) == IF indentSize \in {2, 3, 4, 8} THEN indentSize ELSE 4
    IN  IF tabCount > spaceCount THEN [type |-> "tabs", size |-> 1]
        ELSE IF Len(spaceSizes) = 0 THEN [type |-> "spaces", size |-> 4]
        ELSE IF Loop(2, spaceSizes[1]) = 1
        THEN [type |-> "spaces",
              size |-> Reasonable(MinOf({spaceSizes[i] : i \in 1..Len(spaceSizes)}))]
        ELSE [type |-> "spaces", size |-> Reasonable(Loop(2, spaceSizes[1]))]

\* ---------------------------------------------------------------------------
\* Inputs
\* ---------------------------------------------------------------------------
MaxMembers == 2

MaxImports == 2

MaxWidth == 12

MaxBusy == 2

MaxLines == 3

\* A member of a declaration body as written in the source file: its lines, the
\* member names it declares (nested ones included), the texts that must survive
\* formatting, and for a call signature its return type.
Member(kind, key, lines, names, texts, ret) ==
    [kind |-> kind, key |-> key, lines |-> lines, names |-> names, texts |-> texts, ret |-> ret]

MemberCatalog ==
    <<Member("plain", <<"i", "d">>, <<<<"i", "d", ":", " ", "n", "u", "m", "b", "e", "r", ";">>>>, <<<<"i", "d">>>>, <<<<"i", "d">>, <<"n", "u", "m", "b", "e", "r">>>>, <<>>),
      Member("plain", <<"i", "s", "A", "c", "t", "i", "v", "e">>, <<<<"i", "s", "A", "c", "t", "i", "v", "e", "?", ":", " ", "b", "o", "o", "l", "e", "a", "n", ";">>>>, <<<<"i", "s", "A", "c", "t", "i", "v", "e">>>>, <<<<"i", "s", "A", "c", "t", "i", "v", "e">>, <<"b", "o", "o", "l", "e", "a", "n">>>>, <<>>),
      Member("method", <<"s", "a", "v", "e">>, <<<<"s", "a", "v", "e", "(", ")", ":", " ", "v", "o", "i", "d", ";">>>>, <<<<"s", "a", "v", "e">>>>, <<<<"s", "a", "v", "e">>, <<"v", "o", "i", "d">>>>, <<"v", "o", "i", "d">>),
      Member("method", <<"g", "e", "t">>, <<<<"g", "e", "t", "(", "i", "d", ":", " ", "s", "t", "r", "i", "n", "g", ",", " ", "f", "?", ":", " ", "K", ")", ":", " ", "T", ";">>>>, <<<<"g", "e", "t">>>>,
             <<<<"g", "e", "t">>, <<"i", "d">>, <<"s", "t", "r", "i", "n", "g">>, <<"f">>, <<"K">>, <<"T">>>>, <<"T">>),
      Member("method", <<"o", "n">>, <<<<"o", "n", "(", "c", "b", ":", " ", "(", "x", ":", " ", "T", ")", " ", "=", ">", " ", "v", "o", "i", "d", ")", ":", " ", "v", "o", "i", "d", ";">>>>, <<<<"o", "n">>>>,
             <<<<"o", "n">>, <<"c", "b">>, <<"(", "x", ":", " ", "T", ")", " ", "=", ">", " ", "v", "o", "i", "d">>, <<"v", "o", "i", "d">>>>, <<"v", "o", "i", "d">>),
      Member("plain", <<"m", "e", "t", "a">>, <<<<"m", "e", "t", "a", ":", " ", "{">>, <<" ", " ", " ", " ", "k", ":", " ", "T", ";">>, <<" ", " ", " ", " ", "v", "v", "?", ":", " ", "T", ";">>, <<"}", ";">>>>, <<<<"m", "e", "t", "a">>, <<"k">>, <<"v", "v">>>>,
             <<<<"m", "e", "t", "a">>, <<"k">>, <<"v", "v">>, <<"T">>>>, <<>>),
      Member("plain", <<"a", "p">>, <<<<"a", "p", ":", " ", "{", " ", "o", "k", ":", " ", "B", "o", "o", "l", ";">>, <<" ", " ", " ", " ", "b", "y", ":", " ", "S", "t", "r", ";", " ", "a", "t", ":", " ", "D", "a", "t", "e", " ", "}", ";">>>>, <<<<"a", "p">>, <<"o", "k">>, <<"b", "y">>, <<"a", "t">>>>,
             <<<<"a", "p">>, <<"o", "k">>, <<"B", "o", "o", "l">>, <<"b", "y">>, <<"S", "t", "r">>, <<"a", "t">>, <<"D", "a", "t", "e">>>>, <<>>),
      Member("plain", <<"k", "e", "y">>, <<<<"/", "/", " ", "t", "h", "e", " ", "k", "e", "y">>, <<"k", "e", "y", ":", " ", "s", "t", "r", "i", "n", "g", ";">>>>, <<<<"k", "e", "y">>>>,
             <<<<"/", "/", " ", "t", "h", "e", " ", "k", "e", "y">>, <<"k", "e", "y">>, <<"s", "t", "r", "i", "n", "g">>>>, <<>>),
      Member("plain", <<"s", "t">>, <<<<"s", "t", ":">>, <<" ", " ", " ", " ", "|", " ", "\"", "a", "\"">>, <<" ", " ", " ", " ", "|", " ", "\"", "b", "\"", ";">>>>, <<<<"s", "t">>>>,
             <<<<"s", "t">>, <<"|", " ", "\"", "a", "\"">>, <<"|", " ", "\"", "b", "\"">>>>, <<>>),
      Member("unknown", <<"r", "e", "a", "d", "o", "n", "l", "y">>, <<<<"r", "e", "a", "d", "o", "n", "l", "y", " ", "x", ":", " ", "T", ";">>>>, <<>>, <<<<"r", "e", "a", "d", "o", "n", "l", "y", " ", "x", ":", " ", "T", ";">>>>, <<>>)>>

\* the members of the one-line examples, numbered on from the catalog
ExampleMembers ==
    <<Member("plain", <<"n", "a", "m", "e">>, <<<<"n", "a", "m", "e", ":", " ", "s", "t", "r", "i", "n", "g", ";">>>>, <<<<"n", "a", "m", "e">>>>, <<<<"n", "a", "m", "e">>, <<"s", "t", "r", "i", "n", "g">>>>, <<>>),
      Member("plain", <<"m">>, <<<<"m", ":", " ", "M", "a", "p", "<", "K", ",", " ", "V", ">", ";">>>>, <<<<"m">>>>, <<<<"m">>, <<"M", "a", "p", "<", "K", ",", " ", "V", ">">>>>, <<>>),
      Member("unknown", <<"[", "k", "e", "y", ":", " ", "s", "t", "r", "i", "n", "g", "]">>, <<<<"[", "k", "e", "y", ":", " ", "s", "t", "r", "i", "n", "g", "]", ":", " ", "T", ";">>>>, <<>>, <<<<"[", "k", "e", "y", ":", " ", "s", "t", "r", "i", "n", "g", "]", ":", " ", "T", ";">>>>, <<>>)>>

\* the sequences of distinct members a declaration is built from
MemberSeqs ==
    {ms \in UNION {[1..n -> 1..Len(MemberCatalog)] : n \in 1..MaxMembers} :
        \A i, j \in 1..Len(ms) : i # j => ms[i] # ms[j]}

\* a declaration written with one member after the other, each on its own lines
MultiLineDecl(ms) ==
    <<<<"i", "n", "t", "e", "r", "f", "a", "c", "e", " ", "A", " ", "{">>>> \o Flatten([i \in 1..Len(ms) |-> MemberCatalog[ms[i]].lines]) \o <<<<"}">>>>

\* text of the members on one line, separated by blanks, the last ";" left out
RECURSIVE JoinMembers(_, _)
JoinMembers(ms, i) ==
    IF i > Len(ms) THEN <<>>
    ELSE IF i = Len(ms) THEN StripFinalSemi(MemberCatalog[ms[i]].lines[1])
    ELSE MemberCatalog[ms[i]].lines[1] \o <<" ">> \o JoinMembers(ms, i + 1)

\* the same declaration written on one line: interface A { p1; p2 }
SingleLineDecl(ms) == <<<<"i", "n", "t", "e", "r", "f", "a", "c", "e", " ", "A", " ", "{", " ">> \o JoinMembers(ms, 1) \o <<" ", "}">>>>

\* the one-line declaration of the User example: name, id and isActive
UserExample ==
    [layout |-> "single", members |-> <<11, 1, 2>>,
     lines |-> <<<<"i", "n", "t", "e", "r", "f", "a", "c", "e", " ", "U", "s", "e", "r", " ", "{", " ", "n", "a", "m", "e", ":", " ", "s", "t", "r", "i", "n", "g", ";", " ", "i", "d", ":", " ", "n", "u", "m", "b", "e", "r", ";", " ", "i", "s", "A", "c", "t", "i", "v", "e", "?", ":", " ", "b", "o", "o", "l", "e", "a", "n", " ", "}">>>>]

\* a one-line declaration of a property whose type holds a comma
GenericExample ==
    [layout |-> "single", members |-> <<12>>, lines |-> <<<<"i", "n", "t", "e", "r", "f", "a", "c", "e", " ", "A", " ", "{", " ", "m", ":", " ", "M", "a", "p", "<", "K", ",", " ", "V", ">", " ", "}">>>>]

\* a declaration of an index signature and a property
IndexExample ==
    [layout |-> "multi", members |-> <<13, 1>>,
     lines |-> <<<<"i", "n", "t", "e", "r", "f", "a", "c", "e", " ", "A", " ", "{">>, <<"[", "k", "e", "y", ":", " ", "s", "t", "r", "i", "n", "g", "]", ":", " ", "T", ";">>, <<"i", "d", ":", " ", "n", "u", "m", "b", "e", "r", ";">>, <<"}">>>>]

DeclInputs ==
    {UserExample, GenericExample, IndexExample}
    \cup
    {[layout |-> "multi", members |-> ms, lines |-> MultiLineDecl(ms)] : ms \in MemberSeqs}
    \cup
    {[layout |-> "single", members |-> ms, lines |-> SingleLineDecl(ms)] :
        ms \in {m \in MemberSeqs : \A i \in 1..Len(m) : Len(MemberCatalog[m[i]].lines) = 1}}

\* the .seriseirc files the runs are made with
RcFile(lines) == [found |-> TRUE, readable |-> TRUE, lines |-> lines]

NoRcFile == [found |-> FALSE, readable |-> TRUE, lines |-> <<>>]

UnreadableRcFile == [found |-> TRUE, readable |-> FALSE, lines |-> <<>>]

RcNoExpand == RcFile(<<<<"#", " ", "k", "e", "e", "p", " ", "c", "a", "l", "l", " ", "s", "i", "g", "n", "a", "t", "u", "r", "e", "s", " ", "a", "s", " ", "w", "r", "i", "t", "t", "e", "n">>, <<"E", "X", "P", "A", "N", "D", "_", "M", "E", "T", "H", "O", "D", "S", " ", "=", " ", "f", "a", "l", "s", "e">>>>)

RcQuotedReact ==
    RcFile(<<<<"T", "O", "_", "C", "O", "L", "U", "M", "N", "_", "W", "I", "D", "T", "H", " ", "=", " ", "1", "6">>, <<"H", "E", "A", "D", "E", "R", "_", "C", "H", "A", "R", " ", "=", " ", "-">>, <<>>, <<"[", "g", "r", "o", "u", "p", "s", "]">>,
             <<"e", "x", "t", " ", "=", " ", "\"", "r", "e", "a", "c", "t", "\"", ",", " ", "a", "x", "i", "o", "s">>, <<"/", "/", " ", "u", "i", " ", "=", " ", "c", "o", "m", "p", "o", "n", "e", "n", "t", "s", "/", ",", " ", "'", "u", "t", "i", "l", "s", "/", "'">>>>)

RcBareReact ==
    RcFile(<<<<"T", "O", "_", "C", "O", "L", "U", "M", "N", "_", "W", "I", "D", "T", "H", " ", "=", " ", "1", "6">>, <<"[", "g", "r", "o", "u", "p", "s", "]">>, <<"e", "x", "t", " ", "=", " ", "r", "e", "a", "c", "t">>, <<"u", "t", "i", "l", "s", " ", "=", " ", "u", "t", "i", "l", "s", "/">>, <<"u", "i", " ", "=", " ", "c", "o", "m", "p", "o", "n", "e", "n", "t", "s", "/">>>>)

RcWithOther ==
    RcFile(<<<<"T", "O", "_", "C", "O", "L", "U", "M", "N", "_", "W", "I", "D", "T", "H", " ", "=", " ", "1", "6">>, <<"[", "g", "r", "o", "u", "p", "s", "]">>, <<"e", "x", "t", " ", "=", " ", "a", "x", "i", "o", "s">>, <<"o", "t", "h", "e", "r", " ", "=", " ">>, <<"u", "i", " ", "=", " ", "c", "o", "m", "p", "o", "n", "e", "n", "t", "s", "/">>>>)

RcEmptyMatchers ==
    RcFile(<<<<"T", "O", "_", "C", "O", "L", "U", "M", "N", "_", "W", "I", "D", "T", "H", " ", "=", " ", "1", "6">>, <<"[", "g", "r", "o", "u", "p", "s", "]">>, <<"m", "i", "s", "c", " ", "=">>, <<"u", "i", " ", "=", " ", "c", "o", "m", "p", "o", "n", "e", "n", "t", "s", "/">>>>)

\* a [groups] section that is opened twice and closed by another section
RcSections ==
    RcFile(<<<<"[", " ", "g", "r", "o", "u", "p", "s", " ", "]">>, <<"#", " ", "s", "t", "y", "l", "e", "s", " ", "f", "i", "r", "s", "t">>, <<"s", "t", "y", "l", "e", "s", " ", "=", " ", ".", "c", "s", "s">>, <<"[", "m", "i", "s", "c", "]">>, <<"x", " ", "=", " ", "y">>, <<"[", "g", "r", "o", "u", "p", "s", "]">>, <<"e", "x", "t", " ", "=", " ", "a", "x", "i", "o", "s">>>>)

DeclRcFiles == {NoRcFile, RcNoExpand}

ImportRcFiles ==
    {NoRcFile, UnreadableRcFile, RcQuotedReact, RcBareReact, RcWithOther, RcEmptyMatchers, RcSections}

\* import statements as the boundary locator hands them over
StatementCatalog ==
    <<<<"i", "m", "p", "o", "r", "t", " ", "R", "e", "a", "c", "t", " ", "f", "r", "o", "m", " ", "\"", "r", "e", "a", "c", "t", "\"", ";">>,
      <<"i", "m", "p", "o", "r", "t", " ", "a", "x", "i", "o", "s", " ", "f", "r", "o", "m", " ", "\"", "a", "x", "i", "o", "s", "\"", ";">>,
      <<"i", "m", "p", "o", "r", "t", " ", "F", " ", "f", "r", "o", "m", " ", "\"", "f", "i", "c", "t", "o", "a", "n", "-", "r", "e", "a", "c", "t", "\"", ";">>,
      <<"i", "m", "p", "o", "r", "t", " ", "{", " ", "B", " ", "}", " ", "f", "r", "o", "m", " ", "\"", ".", "/", "c", "o", "m", "p", "o", "n", "e", "n", "t", "s", "/", "u", "t", "i", "l", "s", "/", "B", "\"", ";">>,
      <<"i", "m", "p", "o", "r", "t", " ", "{", "\n", " ", " ", " ", " ", "a", ",", "\n", " ", " ", " ", " ", "b", "\n", "}", " ", "f", "r", "o", "m", " ", "\"", ".", "/", "u", "t", "i", "l", "s", "/", "d", "\"", ";">>,
      <<"i", "m", "p", "o", "r", "t", " ", "\"", ".", "/", "x", ".", "c", "s", "s", "\"", ";">>>>

\* the import statements of the README's "Before" block
ReadmeImports ==
    <<<<"i", "m", "p", "o", "r", "t", " ", "R", "e", "a", "c", "t", " ", "f", "r", "o", "m", " ", "\"", "r", "e", "a", "c", "t", "\"", ";">>,
      <<"i", "m", "p", "o", "r", "t", " ", "{", " ", "B", "u", "t", "t", "o", "n", " ", "}", " ", "f", "r", "o", "m", " ", "\"", ".", "/", "c", "o", "m", "p", "o", "n", "e", "n", "t", "s", "/", "B", "u", "t", "t", "o", "n", "\"", ";">>,
      <<"i", "m", "p", "o", "r", "t", " ", "a", "x", "i", "o", "s", " ", "f", "r", "o", "m", " ", "\"", "a", "x", "i", "o", "s", "\"", ";">>,
      <<"i", "m", "p", "o", "r", "t", " ", "{", " ", "U", "s", "e", "r", "C", "o", "n", "t", "e", "x", "t", " ", "}", " ", "f", "r", "o", "m", " ", "\"", ".", "/", "c", "o", "n", "t", "e", "x", "t", "s", "/", "U", "s", "e", "r", "C", "o", "n", "t", "e", "x", "t", "\"", ";">>,
      <<"i", "m", "p", "o", "r", "t", " ", "{", " ", "f", "o", "r", "m", "a", "t", "D", "a", "t", "e", " ", "}", " ", "f", "r", "o", "m", " ", "\"", ".", "/", "u", "t", "i", "l", "s", "/", "d", "a", "t", "e", "\"", ";">>>>

ImportInputs ==
    {[i \in 1..Len(ss) |-> StatementCatalog[ss[i]]] :
        ss \in UNION {[1..n -> 1..Len(StatementCatalog)] : n \in 1..MaxImports}}
    \cup {ReadmeImports}

\* the files the standalone script is run on: a head, an import section and a tail
FileHeads == {<<>>, <<<<"/", "/", " ", "a", "p", "p", " ", "e", "n", "t", "r", "y">>>>, <<<<"\"", "u", "s", "e", " ", "c", "l", "i", "e", "n", "t", "\"", ";">>, <<>>>>}

FileImportCatalog ==
    <<<<"i", "m", "p", "o", "r", "t", " ", "a", " ", "f", "r", "o", "m", " ", "\"", "a", "\"", ";">>,
      <<" ", " ", "i", "m", "p", "o", "r", "t", " ", "R", " ", "f", "r", "o", "m", " ", "\"", "r", "e", "a", "c", "t", "\"">>,
      <<"i", "m", "p", "o", "r", "t", " ", "\"", ".", "/", "x", ".", "c", "s", "s", "\"", ";">>>>

FileImportSections ==
    {[i \in 1..Len(ss) |-> FileImportCatalog[ss[i]]] :
        ss \in UNION {[1..n -> 1..Len(FileImportCatalog)] : n \in 0..MaxImports}}

FileTails ==
    {<<>>,
     <<<<"c", "o", "n", "s", "t", " ", "x", " ", "=", " ", "1", ";">>>>,
     <<<<"/", "/", " ", "e", "n", "d">>>>,
     <<<<"c", "o", "n", "s", "t", " ", "x", " ", "=", " ", "1", ";">>, <<"i", "m", "p", "o", "r", "t", " ", "z", " ", "f", "r", "o", "m", " ", "\"", "z", "\"", ";">>, <<"r", "u", "n", "(", ")", ";">>>>,
     <<<<"e", "x", "p", "o", "r", "t", " ", "i", "n", "t", "e", "r", "f", "a", "c", "e", " ", "A", " ", "{">>, <<" ", " ", " ", " ", "i", "d", ":", " ", "n", "u", "m", "b", "e", "r", ";">>, <<" ", " ", " ", " ", "n", "?", ":", " ", "T", ";">>, <<" ", " ", " ", " ", "f", ":", " ", "(", "i", ":", " ", "T", ",", " ", "o", "?", ":", " ", "K", ")", " ", "=", ">", " ", "R", ";">>, <<"}">>>>,
     <<<<"t", "y", "p", "e", " ", "P", " ", "=", " ", "{", " ", "x", ":", " ", "T", ";", " ", "y", ":", " ", "T", " ", "}", ";">>, <<"g", "o", "(", ")", ";">>>>,
     <<<<"c", "o", "n", "s", "t", " ", "=", " ", ";">>>>}

FileInputs ==
    {h \o i \o t : h \in FileHeads, i \in FileImportSections, t \in FileTails} \ {<<>>}

FileRcFiles == {NoRcFile, RcQuotedReact}

\* the files the script is run on while the file system may fail
IoFiles ==
    {<<<<"c", "o", "n", "s", "t", " ", "=", " ", ";">>>>,
     <<<<"i", "m", "p", "o", "r", "t", " ", "a", " ", "f", "r", "o", "m", " ", "\"", "a", "\"", ";">>, <<"c", "o", "n", "s", "t", " ", "=", " ", ";">>>>,
     <<<<"c", "o", "n", "s", "t", " ", "x", " ", "=", " ", "1", ";">>>>,
     <<<<"/", "/", " ", "a", "p", "p", " ", "e", "n", "t", "r", "y">>>>,
     <<<<"i", "m", "p", "o", "r", "t", " ", "\"", ".", "/", "x", ".", "c", "s", "s", "\"", ";">>, <<"c", "o", "n", "s", "t", " ", "x", " ", "=", " ", "1", ";">>>>,
     <<<<"t", "y", "p", "e", " ", "P", " ", "=", " ", "{", " ", "x", ":", " ", "T", ";", " ", "y", ":", " ", "T", " ", "}", ";">>>>}

\* the file system at the start of a run: the target holds disk, there is no
\* temporary file, and renaming onto the target is refused with the error denied
\* for as long as the run lasts ("none": it is not refused); newCode is the text
\* processFile computes from disk, which an attempt reads while the target holds it
IoStart(disk, denied, newCode) ==
    [disk |-> disk, newCode |-> newCode,
     temp |-> "none", error |-> "none", busy |-> 0, denied |-> denied,
     cause |-> "none", written |-> FALSE, logged |-> {}]

\* the code detectIndentStyle is given: lines indented by 1, 2, 3, 4, 6, 8 and 9
\* blanks, by a tab, by a blank and a tab, not at all, and a line of blanks
IndentInputs ==
    LET catalog == <<<<" ", "a">>, <<" ", " ", "a">>, <<" ", " ", " ", "a">>, <<" ", " ", " ", " ", "a">>, <<" ", " ", " ", " ", " ", " ", "a">>, <<" ", " ", " ", " ", " ", " ", " ", " ", "a">>, <<" ", " ", " ", " ", " ", " ", " ", " ", " ", "a">>,
                     <<"\t", "a">>, <<" ", "\t", "a">>, <<"a">>, <<" ", " ", " ">>>>
    IN  {[i \in 1..Len(ls) |-> catalog[ls[i]]] :
            ls \in UNION {[1..n -> 1..Len(catalog)] : n \in 0..MaxLines}}

\* the arguments createHeader is called with: a group name, HEADER_CHAR, TO_COLUMN_WIDTH
HeaderInputs ==
    [text : {<<"/", "/", " ", "E", "X", "T", " ">>, <<" ", " ", "/", "/", " ", "U", "I", " ", " ">>, <<"/", "/", " ", "U", "T", "I", "L", "S", " ">>, <<"/", "/", " ", "C", "O", "M", "P", "O", "N", "E", "N", "T", "S", " ">>, <<"x">>, <<>>},
     headerChar : {<<"=">>, <<"-">>, <<"=", "-">>},
     columnWidth : (-1)..MaxWidth]

\* the parameter lists parseParameters is given: plain types, generics, an object
\* literal, a string literal with a comma, arrow types
ParameterLists ==
    {<<>>, <<"i", "d", ":", " ", "s", "t", "r", "i", "n", "g">>, <<"i", "d", ":", " ", "s", "t", "r", "i", "n", "g", ",", " ", "f", "?", ":", " ", "K">>, <<"a", ":", " ", "M", "a", "p", "<", "K", ",", " ", "V", ">", ",", " ", "b", ":", " ", "T">>, <<"o", ":", " ", "{", " ", "k", ":", " ", "T", ",", " ", "l", ":", " ", "U", " ", "}", ",", " ", "b", "?", ":", " ", "T">>,
     <<"s", ":", " ", "\"", "x", ",", "y", "\"", ",", " ", "b", ":", " ", "T">>, <<"c", "b", ":", " ", "(", "x", ":", " ", "T", ",", " ", "y", ":", " ", "U", ")", " ", "=", ">", " ", "v", "o", "i", "d">>, <<"c", "b", ":", " ", "(", "x", ":", " ", "T", ")", " ", "=", ">", " ", "v", "o", "i", "d", ",", " ", "b", ":", " ", "K">>,
     <<"a", ":", " ", "T", ",", " ", "c", "b", ":", " ", "(", ")", " ", "=", ">", " ", "R", ",", " ", "c", ":", " ", "K", ",", " ", "d", ":", " ", "K">>}

\* a parameter as written in a call signature
Parameter(name, optional, type) == [name |-> name, optional |-> optional, type |-> type]

\* a call signature written on one line, name(params): ret;, and the parameters that
\* params declares
Signature(key, params, ret, parameters) ==
    [key |-> key, params |-> params, ret |-> ret, parameters |-> parameters,
     line |-> key \o <<"(">> \o params \o <<")", ":", " ">> \o ret \o <<";">>]

SignatureCatalog ==
    {Signature(<<"s", "a", "v", "e">>, <<>>, <<"v", "o", "i", "d">>, <<>>),
     Signature(<<"l", "o", "a", "d">>, <<" ">>, <<"P", "r", "o", "m", "i", "s", "e", "<", "v", "o", "i", "d", ">">>, <<>>),
     Signature(<<"r", "u", "n">>, <<>>, <<"(", "x", ":", " ", "T", ")", " ", "=", ">", " ", "v", "o", "i", "d">>, <<>>),
     Signature(<<"g", "e", "t">>, <<"i", "d", ":", " ", "s", "t", "r", "i", "n", "g", ",", " ", "f", "?", ":", " ", "K">>, <<"T">>,
               <<Parameter(<<"i", "d">>, FALSE, <<"s", "t", "r", "i", "n", "g">>), Parameter(<<"f">>, TRUE, <<"K">>)>>),
     Signature(<<"s", "e", "t">>, <<"k", "e", "y", ":", " ", "s", "t", "r", "i", "n", "g", ",", " ", "v", "a", "l", "u", "e", ":", " ", "n", "u", "m", "b", "e", "r">>, <<"v", "o", "i", "d">>,
               <<Parameter(<<"k", "e", "y">>, FALSE, <<"s", "t", "r", "i", "n", "g">>), Parameter(<<"v", "a", "l", "u", "e">>, FALSE, <<"n", "u", "m", "b", "e", "r">>)>>),
     Signature(<<"p", "u", "t">>, <<"a", ":", " ", "M", "a", "p", "<", "K", ",", " ", "V", ">", ",", " ", "b", ":", " ", "\"", "x", ",", "y", "\"">>, <<"R">>,
               <<Parameter(<<"a">>, FALSE, <<"M", "a", "p", "<", "K", ",", " ", "V", ">">>), Parameter(<<"b">>, FALSE, <<"\"", "x", ",", "y", "\"">>)>>),
     Signature(<<"o", "n", "e">>, <<"x", "?", ":", " ", "T">>, <<"T", "[", "]">>, <<Parameter(<<"x">>, TRUE, <<"T">>)>>),
     Signature(<<"g", "e", "t", "D", "a", "t", "a">>, <<"i", "d", ":", " ", "s", "t", "r", "i", "n", "g", ",", "f", "i", "e", "l", "d", "s", " ", "?", ":", " ", "K", "[", "]", ",", " ", "o", "p", "t", "s", "?", ":", " ", "O">>, <<"P", "r", "o", "m", "i", "s", "e", "<", "P", "i", "c", "k", "<", "T", ",", " ", "K", ">", ">">>,
               <<Parameter(<<"i", "d">>, FALSE, <<"s", "t", "r", "i", "n", "g">>), Parameter(<<"f", "i", "e", "l", "d", "s">>, TRUE, <<"K", "[", "]">>),
                 Parameter(<<"o", "p", "t", "s">>, TRUE, <<"O">>)>>)}

\* the calls of formatMethodSignature the block formatter makes for a one-line call
\* signature: the property indent of the block and the width its keys are padded to
SignatureInputs ==
    [signature : SignatureCatalog,
     propertyIndent : {<<" ", " ", " ", " ">>, <<" ", " ", " ", " ", " ", " ", " ", " ">>},
     maxKeyLength : {0, 8}]

\* ---------------------------------------------------------------------------
\* State machine
\* ---------------------------------------------------------------------------
VARIABLES
    family,   \* which entry point the run exercises
    pc,       \* position of the run
    rc,       \* the configuration file found for the run
    input,    \* the declaration ("decl"), the statements ("imports") or the lines of the file ("file")
    config,   \* the resolved configuration, <<>> before loadConfig ran
    out,      \* result of the first pass
    out2,     \* result of a second pass: of out, or of the declaration without a member or laid out anew
    io        \* the file system and the error in flight of a run of the script ("io")

vars == <<family, pc, rc, input, config, out, out2, io>>

Init ==
    /\ family \in {"decl", "imports", "file", "header", "io", "indent", "signature", "parameters"}
    /\ pc = "init"
    /\ rc \in (CASE family \in {"decl", "signature"} -> DeclRcFiles
                 [] family = "imports" -> ImportRcFiles
                 [] family = "file" -> FileRcFiles
                 [] OTHER -> {NoRcFile})
    /\ input \in (CASE family = "decl" -> DeclInputs
                    [] family = "imports" -> ImportInputs
                    [] family = "file" -> FileInputs
                    [] family = "header" -> HeaderInputs
                    [] family = "io" -> IoFiles
                    [] family = "indent" -> IndentInputs
                    [] family = "signature" -> SignatureInputs
                    [] family = "parameters" -> ParameterLists)
    /\ config = <<>>
    /\ out = <<>>
    /\ out2 = <<>>
    /\ io \in IF family = "io"
               THEN {IoStart(input, denied, processFile(input, loadConfigStandalone(rc))) :
                        denied \in {"none", "EPERM", "EACCES"}}
               ELSE {IoStart(<<>>, "none", <<>>)}

LoadConfig ==
    /\ pc = "init"
    /\ family \in {"decl", "imports", "signature"}
    /\ config' = loadConfig(rc)
    /\ pc' = "loaded"
    /\ UNCHANGED <<family, rc, input, out, out2, io>>

FormatDeclaration ==
    /\ pc = "loaded"
    /\ family = "decl"
    /\ out' = formatInterfaceBlock(input.lines, config)
    /\ pc' = "formatted"
    /\ UNCHANGED <<family, rc, input, config, out2, io>>

ReformatDeclaration ==
    /\ pc = "formatted"
    /\ family = "decl"
    /\ out2' = formatInterfaceBlock(out, config)
    /\ pc' = "reformatted"
    /\ UNCHANGED <<family, rc, input, config, out, io>>

\* the members of the declaration of the run
InputMembers == [i \in 1..Len(input.members) |-> (MemberCatalog \o ExampleMembers)[input.members[i]]]

\* the lines of a declaration without the lines of the members of one kind
WithoutKind(decl, members, kind) ==
    SelectSeq(decl, LAMBDA line :
        \A m \in 1..Len(members) :
            members[m].kind = kind => \A i \in 1..Len(members[m].lines) : members[m].lines[i] # line)

\* a run on the same declaration written without its unrecognised member
FormatSiblings ==
    /\ pc = "formatted"
    /\ family = "decl"
    /\ input.layout = "multi"
    /\ \E m \in 1..Len(InputMembers) : InputMembers[m].kind = "unknown"
    /\ out2' = formatInterfaceBlock(WithoutKind(input.lines, InputMembers, "unknown"), config)
    /\ pc' = "compared"
    /\ UNCHANGED <<family, rc, input, config, out, io>>

\* a declaration written on one line, written anew with one member after the other
OnePerLine(line, members) ==
    <<Sub(line, 0, IndexOf(line, <<"{">>) + 1)>>
    \o Flatten([i \in 1..Len(members) |-> members[i].lines]) \o <<<<"}">>>>

\* a run on the declaration of a one-line input written with one property per line
FormatOnePerLine ==
    /\ pc = "formatted"
    /\ family = "decl"
    /\ input.layout = "single"
    /\ out2' = formatInterfaceBlock(OnePerLine(input.lines[1], InputMembers), config)
    /\ pc' = "relaid"
    /\ UNCHANGED <<family, rc, input, config, out, io>>

GroupImports ==
    /\ pc = "loaded"
    /\ family = "imports"
    /\ out' = groupAndFormatImports(input, config)
    /\ pc' = "grouped"
    /\ UNCHANGED <<family, rc, input, config, out2, io>>

\* one call of formatMethodSignature, made as formatBlockContent makes it for a call
\* signature: the aligned first line is indent, padded key, " (params): " and the value
FormatMethodSignature ==
    /\ pc = "loaded"
    /\ family = "signature"
    /\ out' = formatMethodSignature(
                  <<input.signature.line>>, input.propertyIndent,
                  input.propertyIndent \o PadEnd(input.signature.key, input.maxKeyLength, <<" ">>)
                      \o <<" ", "(">> \o input.signature.params \o <<")", ":", " ">> \o input.signature.ret \o <<";">>,
                  config)
    /\ pc' = "signed"
    /\ UNCHANGED <<family, rc, input, config, out2, io>>

\* one call of parseParameters
ParseParameters ==
    /\ pc = "init"
    /\ family = "parameters"
    /\ out' = parseParameters(input)
    /\ pc' = "parsed"
    /\ UNCHANGED <<family, rc, input, config, out2, io>>

\* one call of createHeader
CreateHeader ==
    /\ pc = "init"
    /\ family = "header"
    /\ out' = createHeader(input.text, input.headerChar, input.columnWidth)
    /\ pc' = "headed"
    /\ UNCHANGED <<family, rc, input, config, out2, io>>

\* one call of detectIndentStyle
DetectIndent ==
    /\ pc = "init"
    /\ family = "indent"
    /\ out' = detectIndentStyle(input)
    /\ pc' = "detected"
    /\ UNCHANGED <<family, rc, input, config, out2, io>>

\* one run of the standalone script on the file
ProcessFile ==
    /\ pc = "init"
    /\ family = "file"
    /\ config' = loadConfigStandalone(rc)
    /\ out' = processFile(input, config')
    /\ pc' = "processed"
    /\ UNCHANGED <<family, rc, input, out2, io>>

\* a second run of the script on the file the first run wrote
ReprocessFile ==
    /\ pc = "processed"
    /\ family = "file"
    /\ out2' = processFile(out, loadConfigStandalone(rc))
    /\ pc' = "reprocessed"
    /\ UNCHANGED <<family, rc, input, config, out, io>>

\* the write is made whatever the new text is
AlwaysWrite(newCode, originalCode) == TRUE

\* if (newCode !== originalCode)
NeedsWrite(newCode, originalCode) == newCode # originalCode

\* the temporary file is left where it is
KeepTemp(fsys) == fsys

\* fs.unlinkSync(tempFile) when it succeeds
unlinkSync(fsys) == [fsys EXCEPT !.temp = "none"]

\* an attempt of processFile up to the call of writeFileAtomic: readFileSync fails
\* with a busy error, or the file is read and formatted and the write is decided
Attempt ==
    /\ pc = "init"
    /\ family = "io"
    /\ \/ /\ io.busy < MaxBusy
          /\ io' = [io EXCEPT !.error = "EBUSY", !.busy = @ + 1]
          /\ pc' = "catch"
          /\ UNCHANGED <<config, out>>
       \/ /\ config' = loadConfigStandalone(rc)
          /\ out' = io.newCode
          /\ io' = [io EXCEPT !.written = @ \/ NeedsWrite(out', io.disk)]
          /\ pc' = IF NeedsWrite(out', io.disk) THEN "writing" ELSE "done"
    /\ UNCHANGED <<family, rc, input, out2>>

\* writeFileAtomic: fs.writeFileSync(tempFile, content); when it fails the temporary
\* file is absent or holds a part of the content
WriteTemp ==
    /\ pc = "writing"
    /\ \/ /\ io' = [io EXCEPT !.temp = "complete"]
          /\ pc' = "renaming"
       \/ /\ \E left \in {"none", "partial"} : io' = [io EXCEPT !.temp = left, !.cause = "ENOSPC"]
          /\ pc' = "cleanup"
    /\ UNCHANGED <<family, rc, input, config, out, out2>>

\* writeFileAtomic: fs.renameSync(tempFile, filePath)
Rename ==
    /\ pc = "renaming"
    /\ \/ /\ io.busy < MaxBusy
          /\ io' = [io EXCEPT !.cause = "EBUSY", !.busy = @ + 1]
          /\ pc' = "cleanup"
       \/ /\ io.denied # "none"
          /\ io' = [io EXCEPT !.cause = io.denied]
          /\ pc' = "cleanup"
       \/ /\ io.denied = "none"
          /\ io' = [io EXCEPT !.disk = out, !.temp = "none"]
          /\ pc' = "done"
    /\ UNCHANGED <<family, rc, input, config, out, out2>>

\* writeFileAtomic's catch: the temporary file is unlinked when it exists, a failure
\* to unlink it is logged, and the error that was caught is thrown again
Cleanup ==
    /\ pc = "cleanup"
    /\ \/ io' = [(IF io.temp # "none" THEN unlinkSync(io) ELSE io) EXCEPT !.error = io.cause]
       \/ /\ io.temp # "none"
          /\ io' = [io EXCEPT !.error = io.cause, !.logged = @ \cup {"cleanup"}]
    /\ pc' = "catch"
    /\ UNCHANGED <<family, rc, input, config, out, out2>>

\* processFile's catch: EBUSY and EPERM schedule another attempt, any other error
\* is logged
Catch ==
    /\ pc = "catch"
    /\ IF io.error \in {"EBUSY", "EPERM"}
       THEN pc' = "waiting" /\ UNCHANGED io
       ELSE pc' = "abandoned" /\ io' = [io EXCEPT !.logged = @ \cup {io.error}]
    /\ UNCHANGED <<family, rc, input, config, out, out2>>

\* the timer set by setTimeout(() => processFile(filePath), 100) fires; the next
\* attempt names a new temporary file
Retry ==
    /\ pc = "waiting"
    /\ pc' = "init"
    /\ io' = [io EXCEPT !.error = "none", !.cause = "none", !.temp = "none"]
    /\ UNCHANGED <<family, rc, input, config, out, out2>>

Next ==
    \/ LoadConfig
    \/ FormatDeclaration
    \/ ReformatDeclaration
    \/ FormatSiblings
    \/ FormatOnePerLine
    \/ GroupImports
    \/ CreateHeader
    \/ FormatMethodSignature
    \/ ParseParameters
    \/ DetectIndent
    \/ ProcessFile
    \/ ReprocessFile
    \/ Attempt
    \/ WriteTemp
    \/ Rename
    \/ Cleanup
    \/ Catch
    \/ Retry

Spec == Init /\ [][Next]_vars

\* a run of the script is not suspended for ever: every step it can take and every
\* timer it has set is eventually run
FairSpec == Spec /\ WF_vars(Attempt \/ WriteTemp \/ Rename \/ Cleanup \/ Catch \/ Retry)

\* ---------------------------------------------------------------------------
\* Reading the results
\* ---------------------------------------------------------------------------
\* the lines between the header line and the closing-brace line of a declaration
BodyOf(decl) == SliceInner(decl)

\* the member names a line declares outside parentheses; a name is a key at the
\* start of the line or after ; { } that is followed by ?, : or (
RECURSIVE ScanNames(_, _, _, _, _)
ScanNames(line, i, parenDepth, boundary, acc) ==
    IF i >= Len(line) THEN [names |-> acc, parenDepth |-> parenDepth]
    ELSE LET char == At(line, i)
             e    == RunEnd(line, i, KeyChars)
             q    == SkipWS(line, e)
         IN  IF IsWS(char) THEN ScanNames(line, i + 1, parenDepth, boundary, acc)
             ELSE IF char = "(" THEN ScanNames(line, i + 1, parenDepth + 1, FALSE, acc)
             ELSE IF char = ")" THEN ScanNames(line, i + 1, parenDepth - 1, FALSE, acc)
             ELSE IF char \in {";", "{", "}"} THEN ScanNames(line, i + 1, parenDepth, TRUE, acc)
             ELSE IF char \in KeyChars
             THEN ScanNames(line, e, parenDepth, FALSE,
                            IF boundary /\ parenDepth = 0 /\ At(line, q) \in {"?", ":", "("}
                            THEN Append(acc, Sub(line, i, e)) ELSE acc)
             ELSE ScanNames(line, i + 1, parenDepth, FALSE, acc)

RECURSIVE NamesOf(_, _, _)
NamesOf(lines, i, parenDepth) ==
    IF i > Len(lines) THEN <<>>
    ELSE IF IsCommentStart(Trim(lines[i])) THEN NamesOf(lines, i + 1, parenDepth)
    ELSE LET r == ScanNames(lines[i], 0, parenDepth, TRUE, <<>>)
         IN  r.names \o NamesOf(lines, i + 1, r.parenDepth)

\* the lines of a formatted body that hold the direct-child member with this key
LinesOfKey(body, key, indent) ==
    {i \in 1..Len(body) :
        /\ LeadingWS(body[i]) = indent
        /\ StartsWith(Trim(body[i]), key)
        /\ At(Trim(body[i]), Len(key)) \notin KeyChars}

\* the columns of the first ":" of the direct-child plain properties of a formatted body
ColonColumns(body, members, indent) ==
    {IndexOf(body[i], <<":">>) :
        i \in UNION {LinesOfKey(body, members[m].key, indent) :
                        m \in {k \in 1..Len(members) : members[k].kind = "plain"}}}

\* a call signature emitted in the expanded shape: "name (" first, "): R;" last
IsExpanded(body, member, indent) ==
    \E i, j \in 1..Len(body) :
        /\ i < j
        /\ body[i] = indent \o member.key \o <<" ", "(">>
        /\ body[j] = indent \o <<")", ":", " ">> \o member.ret \o <<";">>
        /\ \A k \in (i + 1)..(j - 1) : Len(LeadingWS(body[k])) > Len(indent)

\* a text of the input is found in some line of the output
Survives(text, lines) == \E i \in 1..Len(lines) : Includes(lines[i], text)

\* an import statement line of a formatted import block
IsStatementLine(line) == line # <<>> /\ ~StartsWith(line, <<"/", "/">>)

\* the header line a statement line stands under, <<>> when there is none
HeaderAbove(lines, i) ==
    LET hs == {j \in 1..(i - 1) : StartsWith(lines[j], <<"/", "/">>)}
    IN  IF hs = {} THEN <<>> ELSE lines[MaxOf(hs)]

HeaderOf(group) == createHeader(group.name, config.HEADER_CHAR, config.TO_COLUMN_WIDTH)

\* the groups whose predicate holds of a statement's single-line form
MatchingGroups(imp) ==
    {g \in 1..Len(config.groups) : GroupMatcher(config.groups[g], FlattenImport(imp, 0))}

\* the module a statement imports from: the text between its last two double quotes
ModuleOf(imp) ==
    LET b == LastIndexOf(imp, <<"\"">>)
    IN  SubFrom(Sub(imp, 0, b), LastIndexOf(Sub(imp, 0, b), <<"\"">>) + 1)

\* the lines of a file up to its last import statement
ImportBlockOf(lines) ==
    LET at == {i \in 1..Len(lines) : IsImportLine(lines[i])}
    IN  IF at = {} THEN <<>> ELSE SubSeq(lines, 1, MaxOf(at))

\* the number of generated group header lines of a file
HeaderCount(lines, cfg) ==
    Cardinality({i \in 1..Len(lines) :
        \E g \in 1..Len(cfg.groups) :
            lines[i] = createHeader(cfg.groups[g].name, cfg.HEADER_CHAR, cfg.TO_COLUMN_WIDTH)})

\* a <= b in lexicographic order of code units
LexLeq(a, b) ==
    \/ Len(a) <= Len(b) /\ SubSeq(b, 1, Len(a)) = a
    \/ \E i \in 1..Min2(Len(a), Len(b)) :
          /\ SubSeq(a, 1, i - 1) = SubSeq(b, 1, i - 1)
          /\ CodeUnit(a[i]) < CodeUnit(b[i])

\* ---------------------------------------------------------------------------
\* Properties
\* ---------------------------------------------------------------------------
\* C1: declaration-block idempotence -- formatting the lines a first pass produced
\* yields exactly the same lines (count, text, blank lines, indentation).
DeclarationIdempotent ==
    pc = "reformatted" => out2 = out

\* C2: import-block idempotence at file level -- a second run of processFile on the
\* file a first run wrote leaves the lines up to the last import statement as they
\* are; the number of generated header lines does not grow.
ImportBlockIdempotent ==
    pc = "reprocessed" =>
        /\ ImportBlockOf(out2) = ImportBlockOf(out)
        /\ HeaderCount(out2, config) = HeaderCount(out, config)

\* C3: grouping invariant -- every input statement stands in the output exactly once,
\* under the header of the first group in configured order whose predicate matches
\* its single-line form (the catch-all group when no earlier group matches).
GroupingInvariant ==
    pc = "grouped" =>
        \A k \in 1..Len(input) :
            LET imp == input[k]
                at  == {i \in 1..Len(out) : out[i] = imp}
            IN  /\ Cardinality(at) = 1
                /\ MatchingGroups(imp) # {}
                /\ \A i \in at :
                      HeaderAbove(out, i) = HeaderOf(config.groups[MinOf(MatchingGroups(imp))])

\* a statement that two groups match, the later of them not the catch-all, was grouped
GroupingWitness ==
    /\ pc = "grouped"
    /\ \E k \in 1..Len(input) :
          /\ Cardinality(MatchingGroups(input[k])) >= 3
          /\ \E i \in 1..Len(out) : out[i] = input[k]
    /\ \E k \in 1..Len(input) : MatchingGroups(input[k]) = {Len(config.groups)}

\* C4: alignment invariant -- in the output of one block the first ":" of every
\* direct-child plain property is at the same column.
AlignmentInvariant ==
    (pc = "formatted" /\ input.layout = "multi") =>
        Cardinality(ColonColumns(BodyOf(out), InputMembers, getIndentString(config))) <= 1

\* C5: method expansion invariant -- with EXPAND_METHODS enabled every call-signature
\* member is emitted on more than one line, the last being "<indent>): <returnType>;".
MethodExpansionInvariant ==
    (pc = "formatted" /\ input.layout = "multi" /\ config.EXPAND_METHODS) =>
        \A m \in 1..Len(InputMembers) :
            InputMembers[m].kind = "method" =>
                IsExpanded(BodyOf(out), InputMembers[m], getIndentString(config))

\* C6: order preservation -- the sequence of member names of the formatted output
\* equals the sequence of member names of the input.
OrderPreservation ==
    pc = "formatted" =>
        NamesOf(BodyOf(out), 1, 0) = Flatten([m \in 1..Len(InputMembers) |-> InputMembers[m].names])

\* C7: no data loss -- every member name and type text of the input is present in
\* the output; an unrecognised member is emitted unchanged.
NoDataLoss ==
    pc = "formatted" =>
        \A m \in 1..Len(InputMembers) :
            \A t \in 1..Len(InputMembers[m].texts) : Survives(InputMembers[m].texts[t], out)

\* C8: package-name matchers are exact -- a group whose matcher is the package name
\* react takes the import from module "react" and takes no statement that only
\* contains the name inside another module name.
PackageMatchersExact ==
    pc = "grouped" =>
        \A g \in 1..Len(config.groups) :
            (\E k \in 1..Len(config.groups[g].matchers) : config.groups[g].matchers[k] = <<"r", "e", "a", "c", "t">>) =>
                \A i \in 1..Len(out) :
                    (/\ IsStatementLine(out[i])
                     /\ HeaderAbove(out, i) = HeaderOf(config.groups[g])
                     /\ \A k \in 1..Len(config.groups[g].matchers) :
                           config.groups[g].matchers[k] # <<"r", "e", "a", "c", "t">> =>
                               ~Includes(FlattenImport(out[i], 0), config.groups[g].matchers[k]))
                    => ModuleOf(out[i]) = <<"r", "e", "a", "c", "t">>

\* C9: configuration invariant -- in every configuration loadConfig produces exactly
\* one group matches unconditionally and it is the last group.
ConfigurationInvariant ==
    (family \in {"decl", "imports"} /\ pc # "init") =>
        {g \in 1..Len(config.groups) : isOtherGroup(config.groups[g])} = {Len(config.groups)}

ReadmeExample ==
    (pc = "grouped" /\ input = ReadmeImports /\ rc = NoRcFile) =>
        /\ SelectSeq(out, LAMBDA line : StartsWith(line, <<"/", "/">>))
              = <<HeaderOf(defaultConfig.groups[1]), HeaderOf(defaultConfig.groups[2]),
                  HeaderOf(defaultConfig.groups[3]), HeaderOf(defaultConfig.groups[13])>>
        /\ \E i, j \in 1..Len(out) :
              /\ i < j
              /\ out[i] = <<"i", "m", "p", "o", "r", "t", " ", "a", "x", "i", "o", "s", " ", "f", "r", "o", "m", " ", "\"", "a", "x", "i", "o", "s", "\"", ";">>
              /\ out[j] = <<"i", "m", "p", "o", "r", "t", " ", "R", "e", "a", "c", "t", " ", "f", "r", "o", "m", " ", "\"", "r", "e", "a", "c", "t", "\"", ";">>
              /\ HeaderAbove(out, i) = HeaderOf(defaultConfig.groups[1])
              /\ HeaderAbove(out, j) = HeaderOf(defaultConfig.groups[1])

\* C12: output shape of groupAndFormatImports -- a header line is emitted for a group
\* if and only if a statement was assigned to it; emitted groups are separated by
\* exactly one empty line; the output neither starts nor ends with an empty line.
OutputShape ==
    pc = "grouped" =>
        LET headers  == SelectSeq(out, LAMBDA line : StartsWith(line, <<"/", "/">>))
            assigned == {MinOf(MatchingGroups(input[k])) : k \in 1..Len(input)}
            emitted  == SelectSeq([g \in 1..Len(config.groups) |-> g], LAMBDA g : g \in assigned)
        IN  /\ headers = [h \in 1..Len(emitted) |-> HeaderOf(config.groups[emitted[h]])]
            /\ out[1] # <<>>
            /\ out[Len(out)] # <<>>
            /\ \A i \in 2..Len(out) :
                  /\ StartsWith(out[i], <<"/", "/">>) => (out[i - 1] = <<>> /\ IsStatementLine(out[i - 2]))
                  /\ out[i - 1] = <<>> => StartsWith(out[i], <<"/", "/">>)

\* statements were assigned to two groups and a configured group stayed empty
OutputShapeWitness ==
    /\ pc = "grouped"
    /\ Cardinality({MinOf(MatchingGroups(input[k])) : k \in 1..Len(input)}) >= 2
    /\ Cardinality({MinOf(MatchingGroups(input[k])) : k \in 1..Len(input)}) < Len(config.groups)
    /\ \E i \in 1..Len(out) : out[i] = <<>>

\* C13: header width -- createHeader returns the trimmed label, one space and fill
\* characters up to exactly the column width when the trimmed label is shorter than
\* the width minus one, and the trimmed label alone otherwise.
HeaderWidth ==
    pc = "headed" =>
        LET trimmedText == Trim(input.text)
        IN  IF Len(trimmedText) < input.columnWidth - 1
            THEN /\ Len(out) = input.columnWidth
                 /\ SubSeq(out, 1, Len(trimmedText) + 1) = trimmedText \o <<" ">>
                 /\ \A i \in (Len(trimmedText) + 2)..Len(out) :
                       \E k \in 1..Len(input.headerChar) : out[i] = input.headerChar[k]
            ELSE out = trimmedText

\* a label written with surrounding blanks was filled up to the column width
HeaderWidthWitness ==
    /\ pc = "headed"
    /\ input.text # Trim(input.text)
    /\ Len(Trim(input.text)) = input.columnWidth - 2
    /\ Len(out) = input.columnWidth
    /\ out[Len(out)] = input.headerChar[1]

\* a is b with some of its elements left out
RECURSIVE IsSubsequence(_, _)
IsSubsequence(a, b) ==
    IF a = <<>> THEN TRUE
    ELSE IF b = <<>> THEN FALSE
    ELSE IF Head(a) = Head(b) THEN IsSubsequence(Tail(a), Tail(b))
    ELSE IsSubsequence(a, Tail(b))

\* the lines of a file that are no import statement, no blank or generated header
\* line and no line of a type or interface declaration
FrameLines(lines, cfg) ==
    LET frame == {i \in 1..Len(lines) :
                     /\ ~IsImportLine(lines[i])
                     /\ Trim(lines[i]) # <<>>
                     /\ ~headerRegexTest(lines[i], cfg.HEADER_CHAR)
                     /\ (i - 1) \notin extractInterfaceBlocks(lines).linesToRemove}
    IN  [k \in 1..Cardinality(frame) |-> lines[Ascending(frame)[k]]]

\* C14: frame property of the file driver -- every line of the input file that is
\* neither an import statement, nor a generated header or blank line, nor inside a
\* type or interface declaration appears in the output unchanged and in the same
\* relative order; user comments are never deleted.
FramePreserved ==
    pc = "processed" => IsSubsequence(FrameLines(input, config), out)

\* C16: separator after the import block -- in the file processFile produces, the
\* last import statement is followed by exactly one blank line and then a line that
\* is not blank whenever any code follows the imports, a type or interface
\* declaration included, and it is the last line of the file when nothing follows.
SeparatorAfterImports ==
    (pc = "processed" /\ ImportBlockOf(out) # <<>> /\ ~parseFails(input)) =>
        LET last == Len(ImportBlockOf(out))
            codeFollows == \E i \in (last + 1)..Len(out) :
                               Trim(out[i]) # <<>> /\ ~IsCommentStart(Trim(out[i]))
        IN  IF codeFollows
            THEN Len(out) >= last + 2 /\ out[last + 1] = <<>> /\ Trim(out[last + 2]) # <<>>
            ELSE Len(out) = last

\* C15: parse-failure no-op -- when extractImports and extractInterfaceBlocks both
\* return nothing on a file that has non-comment content, processFile makes no write
\* and the content of the file stays as it was.
ParseFailureNoOp ==
    (/\ family = "io"
     /\ extractImports(input, loadConfigStandalone(rc)).importStatements = <<>>
     /\ extractInterfaceBlocks(input).interfaceBlocks = <<>>
     /\ \E i \in 1..Len(input) : Trim(input[i]) # <<>> /\ ~StartsWith(Trim(input[i]), <<"/", "/">>))
    => (~io.written /\ io.disk = input)

\* a run on a file that holds an import statement and does not parse has ended
ParseFailureWitness ==
    /\ family = "io"
    /\ pc = "done"
    /\ parseFails(input)
    /\ \E i \in 1..Len(input) : IsImportLine(input[i])
    /\ ~io.written
    /\ io.disk = input

\* C17: retry policy and termination of processFile -- an attempt is followed by
\* another one only when it failed with the transient file-busy error; any other
\* error is logged and the file is given up, so that the processing of a file ends
\* once busy errors have stopped.
RetryPolicy ==
    /\ [][(pc = "catch" /\ pc' = "waiting") => io.error = "EBUSY"]_vars
    /\ (family = "io" => <>(pc \in {"done", "abandoned"}))

\* C18: atomic write -- writeFileAtomic either replaces the target with the complete
\* new content or, when writing the temporary file or renaming it fails, leaves the
\* target as it was, removes the temporary file when it exists and throws the
\* original error again; the target never holds a part of the content.
AtomicWrite ==
    family = "io" =>
        /\ io.disk = input \/ (io.disk = out /\ io.temp = "none" /\ pc = "done")
        /\ (pc = "catch" /\ io.cause # "none") =>
              (io.disk = input /\ io.temp = "none" /\ io.error = io.cause)

\* C18, amended: as above, but the temporary file is removed only when unlinking it
\* succeeds; when unlinking fails that failure is logged, the temporary file stays,
\* and the original error is still the one thrown.
AtomicWriteBestEffort ==
    family = "io" =>
        /\ io.disk = input \/ (io.disk = out /\ io.temp = "none" /\ pc = "done")
        /\ (pc = "catch" /\ io.cause # "none") =>
              /\ io.disk = input
              /\ io.temp = "none" \/ "cleanup" \in io.logged
              /\ io.error = io.cause

\* the rename of a complete temporary file was refused and the file was removed
AtomicWriteWitness ==
    /\ family = "io"
    /\ pc = "catch"
    /\ io.cause = "EACCES"
    /\ io.temp = "none"
    /\ io.logged = {}
    /\ io.disk = input
    /\ out # input

\* C19: single-line block expansion -- a declaration written on one line as
\* { p1; p2; ...; pn } is formatted to its header line, one body line for each
\* property in order (the key padded to the longest key, a two-character column that
\* holds the optional marker or blanks, then ": type;") and a closing-brace line; the
\* body of the User example is "name       : string;", "id         : number;",
\* "isActive ? : boolean;".
SingleLineExpansion ==
    (/\ pc = "formatted"
     /\ input.layout = "single"
     /\ \A m \in 1..Len(InputMembers) : InputMembers[m].kind = "plain")
    => LET line   == input.lines[1]
           width  == MaxOf({Len(InputMembers[m].key) : m \in 1..Len(InputMembers)})
           Body(member) ==
               getIndentString(config) \o PadEnd(member.key, width, <<" ">>)
               \o (IF Includes(member.lines[1], <<"?">>) THEN <<" ", "?">> ELSE <<" ", " ">>)
               \o <<" ", ":", " ">> \o member.texts[2] \o <<";">>
       IN  /\ out = <<Sub(line, 0, IndexOf(line, <<"{">>) + 1)>>
                    \o [m \in 1..Len(InputMembers) |-> Body(InputMembers[m])]
                    \o <<<<"}">>>>
           /\ input = UserExample =>
                 BodyOf(out) = <<getIndentString(config) \o <<"n", "a", "m", "e", " ", " ", " ", " ", " ", " ", " ", ":", " ", "s", "t", "r", "i", "n", "g", ";">>,
                                 getIndentString(config) \o <<"i", "d", " ", " ", " ", " ", " ", " ", " ", " ", " ", ":", " ", "n", "u", "m", "b", "e", "r", ";">>,
                                 getIndentString(config) \o <<"i", "s", "A", "c", "t", "i", "v", "e", " ", "?", " ", ":", " ", "b", "o", "o", "l", "e", "a", "n", ";">>>>

\* the widths of the lines indented with blanks only, widths above 8 left out
SpaceWidths(lines) ==
    {Len(LeadingWS(lines[i])) :
        i \in {j \in 1..Len(lines) :
                  /\ Trim(lines[j]) # <<>>
                  /\ LeadingWS(lines[j]) # <<>>
                  /\ "\t" \notin CharsOf(LeadingWS(lines[j]))
                  /\ Len(LeadingWS(lines[j])) <= 8}}

\* C20: indent detection for spaces -- detectIndentStyle returns a size in {2,3,4,8}:
\* the greatest common divisor of the observed widths (widths above 8 left out) when
\* that is 2, 3, 4 or 8, the least width when the divisor is 1 and the least width is
\* 2, 3, 4 or 8, and 4 otherwise, also when no line is indented; tabs are returned
\* only when the lines indented with a tab outnumber those indented with blanks.
IndentDetection ==
    pc = "detected" =>
        LET widths  == SpaceWidths(input)
            divisor == MaxOf({d \in 1..8 : \A w \in widths : w % d = 0})
            tabs    == Cardinality({i \in 1..Len(input) :
                           Trim(input[i]) # <<>> /\ "\t" \in CharsOf(LeadingWS(input[i]))})
            spaces  == Cardinality({i \in 1..Len(input) :
                           /\ Trim(input[i]) # <<>>
                           /\ LeadingWS(input[i]) # <<>>
                           /\ "\t" \notin CharsOf(LeadingWS(input[i]))})
        IN  /\ out.type = "tabs" => tabs > spaces
            /\ out.type = "spaces" =>
                  /\ out.size \in {2, 3, 4, 8}
                  /\ out.size = IF widths = {} THEN 4
                                ELSE IF divisor \in {2, 3, 4, 8} THEN divisor
                                ELSE IF divisor = 1 /\ MinOf(widths) \in {2, 3, 4, 8}
                                THEN MinOf(widths)
                                ELSE 4
            /\ tabs <= spaces => out.type = "spaces"

\* widths 4 and 6 were observed and their greatest common divisor 2 was returned
IndentWitness ==
    /\ pc = "detected"
    /\ SpaceWidths(input) = {4, 6}
    /\ out = [type |-> "spaces", size |-> 2]

\* C21: zero-parameter call signature -- a member "name(): R;" is emitted as exactly
\* two lines, "<property indent>name (" followed by "<property indent>): R;", with no
\* parameter line between them, whatever EXPAND_METHODS is set to.
ZeroParameterSignature ==
    (pc = "signed" /\ Trim(input.signature.params) = <<>>) =>
        out = <<input.propertyIndent \o input.signature.key \o <<" ", "(">>,
                input.propertyIndent \o <<")", ":", " ">> \o input.signature.ret \o <<";">>>>

\* save(): void; with its key padded to the width of a longer sibling was formatted
ZeroParameterWitness ==
    /\ pc = "signed"
    /\ input.signature.line = <<"s", "a", "v", "e", "(", ")", ":", " ", "v", "o", "i", "d", ";">>
    /\ input.maxKeyLength = 8
    /\ Len(out) = 2

\* C22: method separator -- in the output of formatBlockContent every call-signature
\* member that is not the first member of its block is immediately preceded by exactly
\* one empty line, and the first member of a block is not preceded by an empty line.
MethodSeparator ==
    (pc = "formatted" /\ input.layout = "multi") =>
        LET body   == BodyOf(out)
            indent == getIndentString(config)
        IN  /\ body[1] # <<>>
            /\ \A m \in 1..Len(InputMembers) :
                  InputMembers[m].kind = "method" =>
                      \E i \in LinesOfKey(body, InputMembers[m].key, indent) :
                          IF m = 1 THEN i = 1
                          ELSE i >= 3 /\ body[i - 1] = <<>> /\ body[i - 2] # <<>>

\* a member whose value is an object type written over several lines
IsNestedObject(member) == Len(member.lines) > 1 /\ Includes(member.lines[1], <<"{">>)

\* the key is written with the optional marker in one of the lines
IsOptionalIn(lines, key) == \E i \in 1..Len(lines) : StartsWith(Trim(lines[i]), key \o <<"?">>)

\* key padded to the longest of keys, followed by the optional-marker column when one
\* of keys is optional in lines
AlignedKey(key, keys, lines) ==
    PadEnd(key, MaxOf({Len(keys[k]) : k \in 1..Len(keys)}), <<" ">>)
    \o (IF \E k \in 1..Len(keys) : IsOptionalIn(lines, keys[k])
        THEN (IF IsOptionalIn(lines, key) THEN <<" ", "?">> ELSE <<" ", " ">>) ELSE <<>>)

\* C23: block-local alignment under nesting -- the key of a multi-line nested object
\* member is padded to the longest key of the parent's direct children only, the
\* nested members follow one indent unit deeper, each on its line, aligned among
\* themselves by the nested keys and nested optional markers only, and the closing
\* line stands at the parent's indent.
NestedAlignment ==
    (pc = "formatted" /\ input.layout = "multi") =>
        \A m \in 1..Len(InputMembers) :
            LET member == InputMembers[m]
                body   == BodyOf(out)
                indent == getIndentString(config)
                plain  == SelectSeq(InputMembers, LAMBDA x : x.kind = "plain")
                direct == [k \in 1..Len(plain) |-> plain[k].key]
                nested == Tail(member.names)
            IN  IsNestedObject(member) =>
                    \E h \in 1..Len(body) :
                        /\ h + Len(nested) + 1 <= Len(body)
                        /\ body[h] = indent \o AlignedKey(member.key, direct, input.lines) \o <<" ", ":", " ", "{">>
                        /\ \A j \in 1..Len(nested) :
                              StartsWith(body[h + j],
                                         indent \o indent
                                         \o AlignedKey(nested[j], nested, member.lines) \o <<" ", ":", " ">>)
                        /\ body[h + Len(nested) + 1] = indent \o <<"}", ";">>

\* the non-empty lines of a sequence of lines
NonEmpty(lines) == SelectSeq(lines, LAMBDA line : line # <<>>)

RECURSIVE TopLevelSegments(_, _, _, _, _)
TopLevelSegments(s, i, segment, depth, quote) ==
    IF i > Len(s) THEN <<segment>>
    ELSE IF quote # ""
    THEN TopLevelSegments(s, i + 1, Append(segment, s[i]), depth,
                          IF s[i] = quote /\ (i = 1 \/ s[i - 1] # "\\") THEN "" ELSE quote)
    ELSE IF s[i] \in {"\"", "'"}
    THEN TopLevelSegments(s, i + 1, Append(segment, s[i]), depth, s[i])
    ELSE IF s[i] \in {"(", "{", "<"}
    THEN TopLevelSegments(s, i + 1, Append(segment, s[i]), depth + 1, quote)
    ELSE IF s[i] \in {")", "}", ">"} /\ ~(s[i] = ">" /\ i > 1 /\ s[i - 1] = "=")
    THEN TopLevelSegments(s, i + 1, Append(segment, s[i]), depth - 1, quote)
    ELSE IF s[i] = "," /\ depth = 0
    THEN <<segment>> \o TopLevelSegments(s, i + 1, <<>>, depth, quote)
    ELSE TopLevelSegments(s, i + 1, Append(segment, s[i]), depth, quote)

\* C25: parameter splitting -- parseParameters returns one parameter per maximal
\* segment between the commas outside every (), {} and <> pair and outside string
\* literals, in source order: name, optional marker and type of the trimmed segment.
ParameterSplitting ==
    pc = "parsed" =>
        LET segments == SelectSeq(TopLevelSegments(input, 1, <<>>, 0, ""), LAMBDA g : Trim(g) # <<>>)
        IN  out = [k \in 1..Len(segments) |-> parseParameter(Trim(segments[k]))]

RECURSIVE GroupLinesOf(_, _, _)
GroupLinesOf(lines, i, inGroups) ==
    IF i > Len(lines) THEN <<>>
    ELSE IF Trim(lines[i]) = <<>> \/ StartsWith(Trim(lines[i]), <<"#">>)
    THEN GroupLinesOf(lines, i + 1, inGroups)
    ELSE IF StartsWith(Trim(lines[i]), <<"[">>)
    THEN GroupLinesOf(lines, i + 1, SelectSeq(lines[i], LAMBDA c : c # " ") = <<"[", "g", "r", "o", "u", "p", "s", "]">>)
    ELSE IF inGroups THEN <<Trim(lines[i])>> \o GroupLinesOf(lines, i + 1, inGroups)
    ELSE GroupLinesOf(lines, i + 1, inGroups)

\* C27: configuration loading of groups -- for a configuration file with group lines
\* the resolved list holds one group per group line in file order, labelled
\* "// <KEY uppercased> ", followed by one appended group "// OTHER " with no matchers
\* as the last element; with no group lines the built-in list, which ends in
\* "// OTHER ", is kept.
GroupsLoaded ==
    (family = "imports" /\ pc # "init") =>
        LET groupLines == IF rc.found /\ rc.readable THEN GroupLinesOf(rc.lines, 1, FALSE) ELSE <<>>
            n          == Len(groupLines)
        IN  IF n = 0
            THEN /\ config.groups = defaultConfig.groups
                 /\ config.groups[Len(config.groups)].name = <<"/", "/", " ", "O", "T", "H", "E", "R", " ">>
            ELSE /\ Len(config.groups) = n + 1
                 /\ \A k \in 1..n :
                       config.groups[k].name
                           = <<"/", "/", " ">> \o toUpperCase(StripSlashes(Trim(BeforeEquals(groupLines[k])))) \o <<" ">>
                 /\ config.groups[n + 1] = [name |-> <<"/", "/", " ", "O", "T", "H", "E", "R", " ">>, matchers |-> <<>>]

\* the file with the group lines ext and // ui was loaded: EXT, UI and the appended OTHER
GroupsLoadedWitness ==
    /\ family = "imports"
    /\ pc = "loaded"
    /\ rc = RcQuotedReact
    /\ [k \in 1..Len(config.groups) |-> config.groups[k].name] = <<<<"/", "/", " ", "E", "X", "T", " ">>, <<"/", "/", " ", "U", "I", " ">>, <<"/", "/", " ", "O", "T", "H", "E", "R", " ">>>>

\* C28: import conservation -- under a configuration that ends in a catch-all group
\* the entries of the output that are neither headers nor empty are exactly the
\* distinct statements of the input, each once and verbatim, a multi-line statement
\* with its line breaks; a statement repeated in the input is emitted once.
ImportConservation ==
    (pc = "grouped" /\ isOtherGroup(config.groups[Len(config.groups)])) =>
        LET statements == SelectSeq(out, IsStatementLine)
        IN  /\ {statements[i] : i \in 1..Len(statements)} = {input[k] : k \in 1..Len(input)}
            /\ \A i, j \in 1..Len(statements) : statements[i] = statements[j] => i = j

\* a statement written over several lines was handed over twice and emitted once
ImportConservationWitness ==
    /\ pc = "grouped"
    /\ Len(input) = 2
    /\ input[1] = input[2]
    /\ Includes(input[1], <<"\n">>)
    /\ Len(out) = 2
    /\ out[2] = input[1]

\* C29: expansion switch -- with EXPAND_METHODS false every call signature written on
\* one line, with or without parameters, is emitted as exactly one line, the aligned
\* first line "<indent><padded key> (<params>): <return type>;".
ExpansionSwitch ==
    (pc = "signed" /\ ~config.EXPAND_METHODS) =>
        out = <<input.propertyIndent \o PadEnd(input.signature.key, input.maxKeyLength, <<" ">>)
                \o <<" ", "(">> \o input.signature.params \o <<")", ":", " ">> \o input.signature.ret \o <<";">>>>

\* C30: layout independence -- a declaration of plain properties written on one line
\* and the same declaration written with one property per line are formatted to the
\* same body lines: same key padding, optional-marker column present in both or in
\* neither, also when no property is optional.
LayoutIndependence ==
    (pc = "relaid" /\ \A m \in 1..Len(InputMembers) : InputMembers[m].kind = "plain") =>
        BodyOf(out) = BodyOf(out2)

====
